---- MODULE Spec2Model ----
(***************************************************************************)
(* Model of checkmeta.py: the .hgmeta configuration reader                 *)
(* (ExpressionParser, CheckParser, readPatterns, readPatternFiles), the    *)
(* verification engine (__applyTestSet, runTests), the check library       *)
(* (encodingTest, mimeTest, bmpTest, bomTest) and the policy gate          *)
(* (checkhook).                                                            *)
(*                                                                         *)
(* Text is modelled as sequences of one-character strings, file content as *)
(* sequences of byte values 0..255, so that the regular expressions and    *)
(* the codecs of the program are computed rather than assumed.             *)
(***************************************************************************)
EXTENDS Integers, Sequences, FiniteSets, TLC

(***************************************************************************)
(* Bounds of the model.                                                    *)
(***************************************************************************)
\* longest source (number of lines) the reader specification enumerates
MaxLines == 3
\* longest check list the hook specification declares for one pattern
MaxChecks == 2

(***************************************************************************)
(* Characters and words.                                                   *)
(***************************************************************************)
Letters ==
  {"a","b","c","d","e","f","g","h","i","j","k","l","m","n","o","p","q","r",
   "s","t","u","v","w","x","y","z"}

UpperLetters ==
  {"A","B","C","D","E","F","G","H","I","J","K","L","M","N","O","P","Q","R",
   "S","T","U","V","W","X","Y","Z"}

Digits == {"0","1","2","3","4","5","6","7","8","9"}

\* the character class [a-zA-Z0-9] of ExpressionParser.__lineRegEx
Alnum == Letters \cup UpperLetters \cup Digits

\* the characters \s matches and str.strip()/rstrip() remove
IsSpace(c) == c \in {" ", "\t", "\n", "\r"}

BSL == "\\"

wSyntax == <<"s","y","n","t","a","x",":">>
wChecks == <<"c","h","e","c","k","s",":">>
wRe == <<"r","e">>
wRegexp == <<"r","e","g","e","x","p">>
wGlob == <<"g","l","o","b">>
wRelre == <<"r","e","l","r","e">>
wRelglob == <<"r","e","l","g","l","o","b">>
wEncoding == <<"e","n","c","o","d","i","n","g">>
wMimetype == <<"m","i","m","e","t","y","p","e">>
wBmp == <<"b","m","p">>
wBom == <<"b","o","m">>

\* s[i:] of Python, i counted from 0
Drop(s, i) == IF i >= Len(s) THEN <<>> ELSE SubSeq(s, i + 1, Len(s))

\* s[:i] of Python
Take(s, i) == IF i >= Len(s) THEN s ELSE SubSeq(s, 1, i)

\* str.startswith
StartsWith(s, p) == Len(s) >= Len(p) /\ SubSeq(s, 1, Len(p)) = p

\* str.rstrip()
RECURSIVE RStrip(_)
RStrip(s) ==
  IF s = <<>> THEN s
  ELSE IF IsSpace(s[Len(s)]) THEN RStrip(SubSeq(s, 1, Len(s) - 1))
  ELSE s

\* str.lstrip()
RECURSIVE LStrip(_)
LStrip(s) ==
  IF s = <<>> THEN s
  ELSE IF IsSpace(s[1]) THEN LStrip(Tail(s))
  ELSE s

\* str.strip()
Strip(s) == LStrip(RStrip(s))

\* str.strip('\'"'): removes leading and trailing quote characters
RECURSIVE StripQuotes(_)
StripQuotes(s) ==
  IF s = <<>> THEN s
  ELSE IF s[1] \in {"'", "\""} THEN StripQuotes(Tail(s))
  ELSE IF s[Len(s)] \in {"'", "\""} THEN StripQuotes(SubSeq(s, 1, Len(s) - 1))
  ELSE s

\* str.split(','): always at least one field
RECURSIVE SplitComma(_)
SplitComma(s) ==
  IF \A i \in 1..Len(s) : s[i] # ","
  THEN <<s>>
  ELSE LET i == CHOOSE k \in 1..Len(s) :
                  s[k] = "," /\ \A j \in 1..(k - 1) : s[j] # ","
       IN <<SubSeq(s, 1, i - 1)>> \o SplitComma(Drop(s, i))

\* str.replace("\\#", "#")
RECURSIVE UnescapeHash(_)
UnescapeHash(s) ==
  IF Len(s) < 2 THEN s
  ELSE IF s[1] = BSL /\ s[2] = "#" THEN <<"#">> \o UnescapeHash(Drop(s, 2))
  ELSE <<s[1]>> \o UnescapeHash(Tail(s))

\* str.lower() on the letters of the model
LowerChar(c) ==
  IF c \in UpperLetters
  THEN CASE c = "A" -> "a" [] c = "B" -> "b" [] c = "C" -> "c" [] c = "D" -> "d"
         [] c = "E" -> "e" [] c = "F" -> "f" [] c = "G" -> "g" [] c = "H" -> "h"
         [] c = "I" -> "i" [] c = "J" -> "j" [] c = "K" -> "k" [] c = "L" -> "l"
         [] c = "M" -> "m" [] c = "N" -> "n" [] c = "O" -> "o" [] c = "P" -> "p"
         [] c = "Q" -> "q" [] c = "R" -> "r" [] c = "S" -> "s" [] c = "T" -> "t"
         [] c = "U" -> "u" [] c = "V" -> "v" [] c = "W" -> "w" [] c = "X" -> "x"
         [] c = "Y" -> "y" [] c = "Z" -> "z"
  ELSE c

Lower(s) == [i \in 1..Len(s) |-> LowerChar(s[i])]

(***************************************************************************)
(* ExpressionParser                                                        *)
(***************************************************************************)
\* ExpressionParser.syntaxes(): the user readable names
SyntaxNames == {wRe, wRegexp, wGlob}

\* variant: glob is mapped like the regular expression names
syntaxesAllRelre(name) == wRelre

\* ExpressionParser.syntaxes()[name]
syntaxes(name) == IF name = wGlob THEN wRelglob ELSE wRelre

\* self.__syntaxSpecs: keys and values of syntaxes()
syntaxSpecs == SyntaxNames \cup {syntaxes(n) : n \in SyntaxNames}

\* length of the longest run of [a-zA-Z0-9] at the start of s
RECURSIVE AlnumRun(_)
AlnumRun(s) ==
  IF s = <<>> THEN 0
  ELSE IF s[1] \in Alnum THEN 1 + AlnumRun(Tail(s))
  ELSE 0

\* variant: everything up to the first colon of the line is the prefix
HasPrefixAnyColon(line) == \E i \in 2..Len(line) : line[i] = ":"

\* group(1) of ([a-zA-Z0-9]+:)?(.*) is present
HasPrefix(line) ==
  LET n == AlnumRun(line) IN n >= 1 /\ Len(line) > n /\ line[n + 1] = ":"

\* ExpressionParser.__call__: [raised |-> TRUE] stands for the KeyError
parseExpression(line, syntax) ==
  IF ~HasPrefix(line)
  THEN [raised |-> FALSE, key |-> syntax \o <<":">> \o line]
  ELSE LET n == AlnumRun(line)
           syntaxOverride == Take(line, n)
           rest == Drop(line, n + 1)
       IN IF syntaxOverride \notin syntaxSpecs
          THEN [raised |-> TRUE, key |-> <<>>]
          ELSE IF syntaxOverride \in SyntaxNames
          THEN [raised |-> FALSE, key |-> syntaxes(syntaxOverride) \o <<":">> \o rest]
          ELSE [raised |-> FALSE, key |-> syntaxOverride \o <<":">> \o rest]

(***************************************************************************)
(* CheckParser                                                             *)
(***************************************************************************)
\* CheckParser.funcMap().keys()
funcMap == {wEncoding, wMimetype, wBmp, wBom}

\* number of leading characters of s that \s* consumes
RECURSIVE SpaceRun(_)
SpaceRun(s) ==
  IF s = <<>> THEN 0
  ELSE IF IsSpace(s[1]) THEN 1 + SpaceRun(Tail(s))
  ELSE 0

\* 0-based index of the first occurrence of c in s, Len(s) when there is none
RECURSIVE IndexOf(_, _)
IndexOf(s, c) ==
  IF s = <<>> THEN 0
  ELSE IF s[1] = c THEN 0
  ELSE 1 + IndexOf(Tail(s), c)

\* self.__lineRegEx.findall(line) for \s*([^(]+)\(([^)]*)\)\s* :
\* the sequence of (group 1, group 2) pairs of the non-overlapping matches,
\* scanned from the left
RECURSIVE FindAll(_)
FindAll(s) ==
  LET w == SpaceRun(s)
      p == IndexOf(s, "(")
      afterOpen == Drop(s, p + 1)
      q == IndexOf(afterOpen, ")")
      \* \s* gives its last character back when [^(]+ would be empty
      nameStart == IF p > w THEN w ELSE w - 1
      afterClose == Drop(afterOpen, q + 1)
  IN IF p >= Len(s) \/ q >= Len(afterOpen)
     THEN <<>>
     ELSE IF p = 0
     THEN FindAll(Tail(s))
     ELSE << <<SubSeq(s, nameStart + 1, p), Take(afterOpen, q)>> >>
          \o FindAll(Drop(afterClose, SpaceRun(afterClose)))

\* the parameter list of one invocation (lines 191-193)
parameters(argText) ==
  LET fields == SplitComma(argText)
      kept == SelectSeq(fields, LAMBDA f : Len(f) > 0)
  IN [i \in 1..Len(kept) |-> StripQuotes(kept[i])]

\* "{0}({1})".format(*funcMatch) of the raw mode (line 198)
rawCheck(funcMatch) == funcMatch[1] \o <<"(">> \o funcMatch[2] \o <<")">>

\* the entry appended to result for one known invocation
checkEntry(funcMatch, decodeChecks) ==
  IF decodeChecks
  THEN [name |-> funcMatch[1], args |-> parameters(funcMatch[2])]
  ELSE rawCheck(funcMatch)

\* variant: the first unknown name ends the loop over the matches
parseChecksStopsAtUnknown(line, decodeChecks) ==
  IF Len(Strip(line)) = 0
  THEN [checks |-> <<>>, warns |-> 0]
  ELSE LET matches == FindAll(line)
           U == {i \in 1..Len(matches) : matches[i][1] \notin funcMap}
           upTo == IF U = {} THEN Len(matches) ELSE (CHOOSE i \in U : \A j \in U : i <= j) - 1
       IN IF matches = <<>>
          THEN [checks |-> <<>>, warns |-> 1]
          ELSE [checks |-> [i \in 1..upTo |-> checkEntry(matches[i], decodeChecks)],
                warns |-> IF U = {} THEN 0 ELSE 1]

\* variant: a payload without any match is dropped without a warning
parseChecksQuiet(line, decodeChecks) ==
  LET matches == FindAll(line)
      known == SelectSeq(matches, LAMBDA m : m[1] \in funcMap)
  IN IF Len(Strip(line)) = 0 \/ matches = <<>>
     THEN [checks |-> <<>>, warns |-> 0]
     ELSE [checks |-> [i \in 1..Len(known) |-> checkEntry(known[i], decodeChecks)],
           warns |-> Len(matches) - Len(known)]

\* CheckParser.__call__: the list of checks and the number of warnings
parseChecks(line, decodeChecks) ==
  IF Len(Strip(line)) = 0
  THEN [checks |-> <<>>, warns |-> 0]
  ELSE LET matches == FindAll(line)
           known == SelectSeq(matches, LAMBDA m : m[1] \in funcMap)
       IN IF matches = <<>>
          THEN [checks |-> <<>>, warns |-> 1]
          ELSE [checks |-> [i \in 1..Len(known) |-> checkEntry(known[i], decodeChecks)],
                warns |-> Len(matches) - Len(known)]

(***************************************************************************)
(* readPatterns, line level                                                *)
(***************************************************************************)
\* number of "\\\\" pairs at the start of s, as (\\\\)* consumes them
RECURSIVE BackslashPairs(_)
BackslashPairs(s) ==
  IF Len(s) >= 2 /\ s[1] = BSL /\ s[2] = BSL
  THEN 1 + BackslashPairs(Drop(s, 2))
  ELSE 0

\* the regular expression ((^|[^\\])(\\\\)*)#.* matches with its match
\* starting at 0-based position st of line: the 0-based index of the "#"
\* it ends group 1 at, or -1
CommentAt(line, st) ==
  LET hashAfter(base) ==
        LET h == base + 2 * BackslashPairs(Drop(line, base))
        IN IF h < Len(line) /\ line[h + 1] = "#" THEN h ELSE -1
      viaStart == IF st = 0 THEN hashAfter(0) ELSE -1
      viaChar == IF st < Len(line) /\ line[st + 1] # BSL
                 THEN hashAfter(st + 1) ELSE -1
  IN IF viaStart >= 0 THEN viaStart ELSE viaChar

\* commentRegEx.sub(r'\1', line): the leftmost match runs to the end of the
\* line and is replaced by its group 1
RECURSIVE StripCommentFrom(_, _)
StripCommentFrom(line, st) ==
  IF st > Len(line) THEN line
  ELSE IF CommentAt(line, st) >= 0 THEN Take(line, CommentAt(line, st))
  ELSE StripCommentFrom(line, st + 1)

StripComment(line) == StripCommentFrom(line, 0)

\* variant: the comment starts at the first "#" that has no backslash
\* right before it
cleanLineNoPairs(line) ==
  LET H == {i \in 1..Len(line) : line[i] = "#" /\ (i = 1 \/ line[i - 1] # BSL)}
      kept == IF H = {} THEN line
              ELSE Take(line, (CHOOSE i \in H : \A j \in H : i <= j) - 1)
  IN RStrip(UnescapeHash(kept))

\* lines 232-233: the text of the line the reader works on
cleanLine(line) == RStrip(UnescapeHash(StripComment(line)))

(***************************************************************************)
(* OrderedDict: a sequence of [key, checks] entries with distinct keys     *)
(***************************************************************************)
HasKey(d, k) == \E i \in 1..Len(d) : d[i].key = k

\* d[k]
Get(d, k) == d[CHOOSE i \in 1..Len(d) : d[i].key = k].checks

\* variant: a known key gets the new list appended to the one it has
PutMerges(d, k, v) ==
  IF HasKey(d, k)
  THEN [i \in 1..Len(d) |->
          IF d[i].key = k THEN [key |-> k, checks |-> d[i].checks \o v] ELSE d[i]]
  ELSE Append(d, [key |-> k, checks |-> v])

\* variant: a known key is moved to the end with its new list
PutMovesToEnd(d, k, v) ==
  Append(SelectSeq(d, LAMBDA e : e.key # k), [key |-> k, checks |-> v])

\* d[k] = v: a known key keeps its place, a new key goes to the end
Put(d, k, v) ==
  IF HasKey(d, k)
  THEN [i \in 1..Len(d) |-> IF d[i].key = k THEN [key |-> k, checks |-> v] ELSE d[i]]
  ELSE Append(d, [key |-> k, checks |-> v])

\* d.update(other)
RECURSIVE Update(_, _)
Update(d, other) ==
  IF other = <<>> THEN d
  ELSE Update(Put(d, other[1].key, other[1].checks), Tail(other))

(***************************************************************************)
(* State                                                                   *)
(***************************************************************************)
VARIABLES
  sources,        \* datas of readPatternFiles: the sources, each a sequence of lines
  srcIdx,         \* the source readPatternFiles is at (line 271)
  lineIdx,        \* the line readPatterns is at (line 230)
  syntax,         \* readPatterns: the default syntax
  checks,         \* readPatterns: the pending check list
  result,         \* readPatterns: the table of the source being read
  patterns,       \* readPatternFiles: the merged table
  warnings,       \* number of hgUi.warn calls so far
  pc,             \* where the program is
  fault,          \* the exception that left the program, "" when none
  files,          \* the changed files: path -> content
  mandatoryChecks,\* checkhook: the mandatory check names
  matchPatterns,  \* checkhook: the (matcher, check list) pairs in the iteration order of the dict
  filesToCheck,   \* checkhook: the files not yet taken from the set
  fileName,       \* runTests: the file being verified
  tests,          \* __applyTestSet: the check list being run
  asserted,       \* __applyTestSet: the assertion set
  testIdx,        \* __applyTestSet: the check the loop is at
  checksRun,      \* __applyTestSet: names of the checks that passed
  success,        \* checkhook: the verdict runTests returned for fileName
  log             \* history: the calls of check functions, <<file, index, asserted>>

readerVars == <<sources, srcIdx, lineIdx, syntax, checks, result, patterns, warnings>>
hookVars == <<files, mandatoryChecks, matchPatterns, filesToCheck, fileName,
              tests, asserted, testIdx, checksRun, success, log>>
vars == <<readerVars, pc, fault, hookVars>>

(***************************************************************************)
(* readPatterns and readPatternFiles                                       *)
(***************************************************************************)
\* the line of the for loop at line 230, after lines 232-233
curSource == sources[srcIdx]
curLine == cleanLine(curSource[lineIdx])

Reading == pc = "read" /\ srcIdx <= Len(sources) /\ lineIdx <= Len(curSource)

\* lines 234-236: an empty line is ignored
SkipLine ==
  /\ Reading
  /\ curLine = <<>>
  /\ lineIdx' = lineIdx + 1
  /\ UNCHANGED <<sources, srcIdx, syntax, checks, result, patterns, warnings,
                 pc, fault, hookVars>>

\* variant: an unknown name falls back to the initial default
newSyntaxResets(name, prev) ==
  IF name \in SyntaxNames THEN syntaxes(name) ELSE syntaxes(wRegexp)

\* lines 239-242: the default syntax after a syntax: line naming name; a
\* KeyError of the lookup leaves the previous one
newSyntax(name, prev) == IF name \in SyntaxNames THEN syntaxes(name) ELSE prev

\* lines 238-242: a syntax: line
SyntaxLine ==
  /\ Reading
  /\ curLine # <<>>
  /\ StartsWith(curLine, wSyntax)
  /\ LET name == Strip(Drop(curLine, 7))
     IN /\ syntax' = newSyntax(name, syntax)
        /\ warnings' = IF name \in SyntaxNames THEN warnings ELSE warnings + 1
  /\ lineIdx' = lineIdx + 1
  /\ UNCHANGED <<sources, srcIdx, checks, result, patterns, pc, fault, hookVars>>

\* variant: a checks: line that parses to nothing keeps the previous list
pendingChecksKeeps(line, prev) ==
  IF parseChecks(Drop(line, 7), TRUE).checks = <<>> THEN prev
  ELSE parseChecks(Drop(line, 7), TRUE).checks

\* line 244: the pending check list after a checks: line
pendingChecks(line, prev) == parseChecks(Drop(line, 7), TRUE).checks

\* lines 243-244: a checks: line
ChecksLine ==
  /\ Reading
  /\ curLine # <<>>
  /\ ~StartsWith(curLine, wSyntax)
  /\ StartsWith(curLine, wChecks)
  /\ checks' = pendingChecks(curLine, checks)
  /\ warnings' = warnings + parseChecks(Drop(curLine, 7), TRUE).warns
  /\ lineIdx' = lineIdx + 1
  /\ UNCHANGED <<sources, srcIdx, syntax, result, patterns, pc, fault, hookVars>>

\* lines 245-246: a pattern line; the KeyError of parseExpression is not
\* caught by readPatterns, readPatternFiles or checkhook
PatternLine ==
  /\ Reading
  /\ curLine # <<>>
  /\ ~StartsWith(curLine, wSyntax)
  /\ ~StartsWith(curLine, wChecks)
  /\ LET parsed == parseExpression(curLine, syntax)
     IN IF parsed.raised
        THEN /\ pc' = "raised"
             /\ fault' = "KeyError"
             /\ UNCHANGED <<result, lineIdx>>
        ELSE /\ result' = Put(result, parsed.key, checks)
             /\ lineIdx' = lineIdx + 1
             /\ UNCHANGED <<pc, fault>>
  /\ UNCHANGED <<sources, srcIdx, syntax, checks, patterns, warnings, hookVars>>

\* variant: the default syntax and the pending list outlive the source
EndSourceKeeps ==
  /\ pc = "read"
  /\ srcIdx <= Len(sources)
  /\ lineIdx > Len(sources[srcIdx])
  /\ patterns' = Update(patterns, result)
  /\ srcIdx' = srcIdx + 1
  /\ lineIdx' = 1
  /\ result' = <<>>
  /\ UNCHANGED <<sources, syntax, checks, warnings, pc, fault, hookVars>>

\* line 248 and lines 271-273: readPatterns returns, its table is merged
\* and the next source is read by a new call (lines 217-228)
EndSource ==
  /\ pc = "read"
  /\ srcIdx <= Len(sources)
  /\ lineIdx > Len(curSource)
  /\ patterns' = Update(patterns, result)
  /\ srcIdx' = srcIdx + 1
  /\ lineIdx' = 1
  /\ syntax' = syntaxes(wRegexp)
  /\ checks' = <<>>
  /\ result' = <<>>
  /\ UNCHANGED <<sources, warnings, pc, fault, hookVars>>

(***************************************************************************)
(* Codecs (codecs.decode, str.decode of the interpreter)                   *)
(***************************************************************************)
wAscii == <<"a","s","c","i","i">>
wBinary == <<"b","i","n","a","r","y">>
wUtf == <<"u","t","f">>
wUtf8 == <<"u","t","f","-","8">>
wUtf7 == <<"u","t","f","-","7">>
wLatin == <<"l","a","t","i","n">>
wLatin1 == <<"l","a","t","i","n","-","1">>
wBogus == <<"b","o","g","u","s">>
wText == <<"t","e","x","t">>
wTextPlain == <<"t","e","x","t","/","p","l","a","i","n">>
wImagePng == <<"i","m","a","g","e","/","p","n","g">>
wTrue == <<"t","r","u","e">>
wFalse == <<"f","a","l","s","e">>
wX == <<"x">>

\* the codec registry spells names in lower case with "_" for "-"
CodecName(enc) ==
  LET l == Lower(enc) IN [i \in 1..Len(l) |-> IF l[i] \in {"-", " "} THEN "_" ELSE l[i]]

\* the codec a name is looked up to, "" for a LookupError.  Defined for the
\* encoding names the configurations of this model use: bogus, x, true and
\* the empty name are not codecs of the interpreter.
CodecOf(enc) ==
  LET n == CodecName(enc)
  IN IF n \in {wAscii, <<"u","s","_","a","s","c","i","i">>} THEN "ascii"
     ELSE IF n \in {<<"u","t","f","_","8">>, <<"u","t","f","8">>} THEN "utf8"
     ELSE IF n \in {<<"u","t","f","_","7">>, <<"u","t","f","7">>} THEN "utf7"
     ELSE IF n \in {<<"l","a","t","i","n","_","1">>, <<"l","a","t","i","n","1">>} THEN "latin1"
     ELSE ""

IsCont(b) == b >= 128 /\ b <= 191

\* the UTF-8 decoder of the interpreter (surrogates are accepted, overlong
\* forms and values above 0x10FFFF are not); a wide build: one character
\* per code point
RECURSIVE DecodeUtf8(_)
DecodeUtf8(bs) ==
  IF bs = <<>> THEN [ok |-> TRUE, chars |-> <<>>]
  ELSE
    LET b == bs[1]
        n == IF b < 128 THEN 1
             ELSE IF b >= 194 /\ b <= 223 THEN 2
             ELSE IF b >= 224 /\ b <= 239 THEN 3
             ELSE IF b >= 240 /\ b <= 244 THEN 4
             ELSE 0
        bad == [ok |-> FALSE, chars |-> <<>>]
    IN IF n = 0 \/ Len(bs) < n THEN bad
       ELSE IF \E i \in 2..n : ~IsCont(bs[i]) THEN bad
       ELSE IF n = 3 /\ b = 224 /\ bs[2] < 160 THEN bad
       ELSE IF n = 4 /\ b = 240 /\ bs[2] < 144 THEN bad
       ELSE IF n = 4 /\ b = 244 /\ bs[2] > 143 THEN bad
       ELSE
         LET cp == CASE n = 1 -> b
                     [] n = 2 -> (b - 192) * 64 + (bs[2] - 128)
                     [] n = 3 -> (b - 224) * 4096 + (bs[2] - 128) * 64 + (bs[3] - 128)
                     [] n = 4 -> (b - 240) * 262144 + (bs[2] - 128) * 4096
                                 + (bs[3] - 128) * 64 + (bs[4] - 128)
             rest == DecodeUtf8(Drop(bs, n))
         IN IF rest.ok THEN [ok |-> TRUE, chars |-> <<cp>> \o rest.chars] ELSE bad

\* decoding with a known codec.  utf7: every byte below 0x80 other than "+"
\* stands for itself; the contents of this model hold no "+" (0x2B).
Decode(codec, bs) ==
  CASE codec = "ascii" ->
         IF \A i \in 1..Len(bs) : bs[i] < 128
         THEN [ok |-> TRUE, chars |-> bs] ELSE [ok |-> FALSE, chars |-> <<>>]
    [] codec = "utf7" ->
         IF \A i \in 1..Len(bs) : bs[i] < 128
         THEN [ok |-> TRUE, chars |-> bs] ELSE [ok |-> FALSE, chars |-> <<>>]
    [] codec = "latin1" -> [ok |-> TRUE, chars |-> bs]
    [] codec = "utf8" -> DecodeUtf8(bs)

(***************************************************************************)
(* Check library.  A check returns "ok" (None), "fail" (an error string)   *)
(* or the name of the exception it raises.                                 *)
(***************************************************************************)
BOM_UTF8 == <<239, 187, 191>>
BOM_UTF16_LE == <<255, 254>>
BOM_UTF16_BE == <<254, 255>>
BOM_UTF32_LE == <<255, 254, 0, 0>>
BOM_UTF32_BE == <<0, 0, 254, 255>>

\* variant: binary is decoded like any other name
encodingTestAlwaysDecodes(encoding, fileContent, assertedSet) ==
  IF CodecOf(encoding) = "" THEN "LookupError"
  ELSE IF Decode(CodecOf(encoding), fileContent).ok THEN "ok"
  ELSE "fail"

\* encodingTest, lines 411-417: only a ValueError is caught
encodingTest(encoding, fileContent, assertedSet) ==
  IF encoding = wBinary THEN "ok"
  ELSE IF CodecOf(encoding) = "" THEN "LookupError"
  ELSE IF Decode(CodecOf(encoding), fileContent).ok THEN "ok"
  ELSE "fail"

isPrintable8bit(b) == b >= 32 \/ b \in {13, 10, 9}

\* variant: a decoded character is judged as a raw byte is
isPrintableUnicodeAsByte(ordinal) == ordinal >= 32 \/ ordinal \in {13, 10, 9}

isPrintableUnicode(ordinal) ==
  ordinal \in {9, 10, 13} \/ (32 <= ordinal /\ ordinal < 127) \/ ordinal > 159

\* mimeTest, lines 442-460
mimeTest(mimeType, fileContent, assertedSet) ==
  IF StartsWith(mimeType, wText) /\ wEncoding \in DOMAIN assertedSet
  THEN IF assertedSet[wEncoding] = <<>> THEN "IndexError"
       ELSE
         LET encoding == Lower(assertedSet[wEncoding][1])
         IN IF StartsWith(encoding, wUtf)
            THEN IF CodecOf(encoding) = "" THEN "LookupError"
                 ELSE LET d == Decode(CodecOf(encoding), fileContent)
                      IN IF ~d.ok THEN "UnicodeDecodeError"
                         ELSE IF \A i \in 1..Len(d.chars) : isPrintableUnicode(d.chars[i])
                         THEN "ok" ELSE "fail"
            ELSE IF \/ encoding = wAscii
                    \/ StartsWith(encoding, wLatin)
                    \/ StartsWith(encoding, <<"i","s","o","-","8","8","5","9">>)
                    \/ StartsWith(encoding, <<"i","s","o","8","8","5","9">>)
                    \/ StartsWith(encoding, <<"c","p">>)
            THEN IF \A i \in 1..Len(fileContent) : isPrintable8bit(fileContent[i])
                 THEN "ok" ELSE "fail"
            ELSE "ok"
  ELSE "ok"

isInBMP(ordinal) == ordinal <= 65535

\* variant: any asserted encoding is taken as a unicode encoding
bmpTestAnyEncoding(fileContent, assertedSet) ==
  IF wEncoding \notin DOMAIN assertedSet THEN "fail"
  ELSE IF assertedSet[wEncoding] = <<>> THEN "IndexError"
  ELSE
    LET encoding == Lower(assertedSet[wEncoding][1])
    IN IF CodecOf(encoding) = "" THEN "LookupError"
       ELSE LET d == Decode(CodecOf(encoding), fileContent)
            IN IF ~d.ok THEN "UnicodeDecodeError"
               ELSE IF \A i \in 1..Len(d.chars) : d.chars[i] <= 65535
               THEN "ok" ELSE "fail"

\* bmpTest, lines 477-490
bmpTest(fileContent, assertedSet) ==
  IF wEncoding \notin DOMAIN assertedSet THEN "fail"
  ELSE IF assertedSet[wEncoding] = <<>> THEN "IndexError"
  ELSE
    LET encoding == Lower(assertedSet[wEncoding][1])
    IN IF ~StartsWith(encoding, wUtf) THEN "fail"
       ELSE IF CodecOf(encoding) = "" THEN "LookupError"
       ELSE LET d == Decode(CodecOf(encoding), fileContent)
            IN IF ~d.ok THEN "UnicodeDecodeError"
               ELSE IF \A i \in 1..Len(d.chars) : isInBMP(d.chars[i])
               THEN "ok" ELSE "fail"

\* enc.lower().translate(None, '-_')
normalizeEncoding(enc) == SelectSeq(Lower(enc), LAMBDA c : c \notin {"-", "_"})

hasBom(data, boms) == \E bom \in boms : Take(data, Len(bom)) = bom

\* the keys of expectedBoms (lines 524-533)
expectedBomsKeys ==
  {<<"u","t","f","8">>, <<"u","t","f","8","s","i","g">>,
   <<"u","t","f","1","6">>, <<"u","t","f","1","6","b","e">>, <<"u","t","f","1","6","l","e">>,
   <<"u","t","f","3","2">>, <<"u","t","f","3","2","b","e">>, <<"u","t","f","3","2","l","e">>}

expectedBoms(encoding) ==
  CASE encoding \in {<<"u","t","f","8">>, <<"u","t","f","8","s","i","g">>} -> {BOM_UTF8}
    [] encoding = <<"u","t","f","1","6">> -> {BOM_UTF16_LE, BOM_UTF16_BE}
    [] encoding = <<"u","t","f","1","6","b","e">> -> {BOM_UTF16_BE}
    [] encoding = <<"u","t","f","1","6","l","e">> -> {BOM_UTF16_LE}
    [] encoding = <<"u","t","f","3","2">> -> {BOM_UTF32_LE, BOM_UTF32_BE}
    [] encoding = <<"u","t","f","3","2","b","e">> -> {BOM_UTF32_BE}
    [] encoding = <<"u","t","f","3","2","l","e">> -> {BOM_UTF32_LE}

\* variant: a 16-bit mark is accepted without looking for a 32-bit one
bomTestNo32BitCheck(bomExpected, fileContent, assertedSet) ==
  IF Lower(bomExpected) \in {wTrue, <<"y","e","s">>, <<"y">>, <<"o","n">>, <<"1">>}
  THEN IF wEncoding \notin DOMAIN assertedSet THEN "fail"
       ELSE IF assertedSet[wEncoding] = <<>> THEN "IndexError"
       ELSE
         LET encoding == normalizeEncoding(Lower(assertedSet[wEncoding][1]))
         IN IF ~StartsWith(encoding, wUtf) THEN "fail"
            ELSE IF encoding \notin expectedBomsKeys THEN "KeyError"
            ELSE IF ~hasBom(fileContent, expectedBoms(encoding)) THEN "fail"
            ELSE "ok"
  ELSE IF hasBom(fileContent, {BOM_UTF8, BOM_UTF16_LE, BOM_UTF16_BE,
                               BOM_UTF32_LE, BOM_UTF32_BE})
       THEN "fail" ELSE "ok"

\* bomTest, lines 515-550
bomTest(bomExpected, fileContent, assertedSet) ==
  IF Lower(bomExpected) \in {wTrue, <<"y","e","s">>, <<"y">>, <<"o","n">>, <<"1">>}
  THEN IF wEncoding \notin DOMAIN assertedSet THEN "fail"
       ELSE IF assertedSet[wEncoding] = <<>> THEN "IndexError"
       ELSE
         LET encoding == normalizeEncoding(Lower(assertedSet[wEncoding][1]))
         IN IF ~StartsWith(encoding, wUtf) THEN "fail"
            ELSE IF encoding \notin expectedBomsKeys THEN "KeyError"
            ELSE IF ~hasBom(fileContent, expectedBoms(encoding)) THEN "fail"
            ELSE IF StartsWith(encoding, <<"u","t","f","1","6">>)
                    /\ hasBom(fileContent, {BOM_UTF32_LE, BOM_UTF32_BE})
            THEN "fail"
            ELSE "ok"
  ELSE IF hasBom(fileContent, {BOM_UTF8, BOM_UTF16_LE, BOM_UTF16_BE,
                               BOM_UTF32_LE, BOM_UTF32_BE})
       THEN "fail" ELSE "ok"

\* test(fileData, asserted) for test = functools.partial(func, *parameters):
\* a wrong number of bound parameters is a TypeError of the call
callTest(test, fileData, assertedSet) ==
  CASE test.name = wEncoding ->
         IF Len(test.args) # 1 THEN "TypeError"
         ELSE encodingTest(test.args[1], fileData, assertedSet)
    [] test.name = wMimetype ->
         IF Len(test.args) # 1 THEN "TypeError"
         ELSE mimeTest(test.args[1], fileData, assertedSet)
    [] test.name = wBom ->
         IF Len(test.args) # 1 THEN "TypeError"
         ELSE bomTest(test.args[1], fileData, assertedSet)
    [] test.name = wBmp ->
         IF Len(test.args) # 0 THEN "TypeError"
         ELSE bmpTest(fileData, assertedSet)

(***************************************************************************)
(* The external matcher match.match(root, '', [], [pattern]) for the       *)
(* relglob patterns of this model: "*" stands for any run of characters    *)
(* other than "/", every other character for itself, and a relglob pattern *)
(* is tried at the root and after every "/" of the path.                   *)
(***************************************************************************)
RECURSIVE GlobMatch(_, _)
GlobMatch(pat, path) ==
  IF pat = <<>> THEN path = <<>> \/ path[1] = "/"
  ELSE IF pat[1] = "*"
  THEN \/ GlobMatch(Tail(pat), path)
       \/ path # <<>> /\ path[1] # "/" /\ GlobMatch(pat, Tail(path))
  ELSE path # <<>> /\ path[1] = pat[1] /\ GlobMatch(Tail(pat), Tail(path))

matcher(key, path) ==
  /\ StartsWith(key, wRelglob \o <<":">>)
  /\ LET pat == Drop(key, Len(wRelglob) + 1)
     IN \E i \in 0..Len(path) :
          (i = 0 \/ path[i] = "/") /\ GlobMatch(pat, Drop(path, i))

(***************************************************************************)
(* checkhook, runTests, __applyTestSet                                     *)
(***************************************************************************)
\* all orders of the entries of a table
Orders(d) ==
  {[i \in 1..Len(d) |-> d[f[i]]] :
     f \in {g \in [1..Len(d) -> 1..Len(d)] : \A i, j \in 1..Len(d) : g[i] = g[j] => i = j}}

\* lines 365-373: readPatternFiles has returned; matchPatterns is a plain
\* dict keyed by matcher objects, which are hashed by address: its
\* iteration order is any order of the entries
BuildMatchers ==
  /\ pc = "read"
  /\ srcIdx > Len(sources)
  /\ matchPatterns' \in Orders(patterns)
  /\ filesToCheck' = DOMAIN files
  /\ pc' = "loop"
  /\ UNCHANGED <<readerVars, fault, files, mandatoryChecks, fileName, tests,
                 asserted, testIdx, checksRun, success, log>>

\* lines 330-335: the first entry of the iteration whose matcher matches
firstMatch(table, path) ==
  IF \E i \in 1..Len(table) : matcher(table[i].key, path)
  THEN CHOOSE i \in 1..Len(table) :
         /\ matcher(table[i].key, path)
         /\ \A j \in 1..(i - 1) : ~matcher(table[j].key, path)
  ELSE 0

\* variant: the first check of a name wins
makeAssertedFirst(testList) ==
  [n \in {testList[i].name : i \in 1..Len(testList)} |->
     testList[CHOOSE i \in 1..Len(testList) :
                /\ testList[i].name = n
                /\ \A j \in 1..(i - 1) : testList[j].name # n].args]

\* lines 299-302: {key: test.args for key, test in tests}
makeAsserted(testList) ==
  [n \in {testList[i].name : i \in 1..Len(testList)} |->
     testList[CHOOSE i \in 1..Len(testList) :
                /\ testList[i].name = n
                /\ \A j \in (i + 1)..Len(testList) : testList[j].name # n].args]

\* variant: the list of passed checks is carried over to the next file
NextFileKeepsChecksRun ==
  /\ pc = "loop"
  /\ \E f \in filesToCheck :
       /\ filesToCheck' = filesToCheck \ {f}
       /\ fileName' = f
       /\ LET m == firstMatch(matchPatterns, f)
          IN IF m = 0
             THEN /\ tests' = <<>>
                  /\ asserted' = <<>>
                  /\ success' = TRUE
                  /\ pc' = "returned"
             ELSE /\ tests' = matchPatterns[m].checks
                  /\ asserted' = makeAsserted(matchPatterns[m].checks)
                  /\ success' = success
                  /\ pc' = "apply"
  /\ testIdx' = 1
  /\ log' = <<>>
  /\ UNCHANGED <<readerVars, fault, files, mandatoryChecks, matchPatterns, checksRun>>

\* line 377 and runTests up to the loop of __applyTestSet: the next file of
\* the set (a set of strings has no order the program chooses)
NextFile ==
  /\ pc = "loop"
  /\ \E f \in filesToCheck :
       /\ filesToCheck' = filesToCheck \ {f}
       /\ fileName' = f
       /\ LET m == firstMatch(matchPatterns, f)
          IN IF m = 0
             THEN /\ tests' = <<>>
                  /\ asserted' = <<>>
                  /\ success' = TRUE
                  /\ pc' = "returned"
             ELSE /\ tests' = matchPatterns[m].checks
                  /\ asserted' = makeAsserted(matchPatterns[m].checks)
                  /\ success' = success
                  /\ pc' = "apply"
  /\ testIdx' = 1
  /\ checksRun' = <<>>
  /\ log' = <<>>
  /\ UNCHANGED <<readerVars, fault, files, mandatoryChecks, matchPatterns>>

\* variant: the name is recorded before the check is called
stepChecksRunEager(run, name, error) == Append(run, name)

\* lines 307-312: checksRun after the check called name returned error
stepChecksRun(run, name, error) == IF error = "ok" THEN Append(run, name) ELSE run

\* lines 305-312: one iteration of the loop of __applyTestSet
RunCheck ==
  /\ pc = "apply"
  /\ testIdx <= Len(tests)
  /\ LET error == callTest(tests[testIdx], files[fileName], asserted)
     IN /\ log' = Append(log, [index |-> testIdx, asserted |-> asserted, error |-> error])
        /\ checksRun' = stepChecksRun(checksRun, tests[testIdx].name, error)
        /\ CASE error = "ok" ->
                  /\ testIdx' = testIdx + 1
                  /\ UNCHANGED <<pc, fault, success, warnings>>
             [] error = "fail" ->
                  /\ warnings' = warnings + 1
                  /\ success' = FALSE
                  /\ pc' = "returned"
                  /\ UNCHANGED <<testIdx, fault>>
             [] OTHER ->
                  /\ pc' = "raised"
                  /\ fault' = error
                  /\ UNCHANGED <<testIdx, success, warnings>>
  /\ UNCHANGED <<sources, srcIdx, lineIdx, syntax, checks, result, patterns,
                 files, mandatoryChecks, matchPatterns, filesToCheck,
                 fileName, tests, asserted>>

\* line 313: every check passed
EndTests ==
  /\ pc = "apply"
  /\ testIdx > Len(tests)
  /\ success' = TRUE
  /\ pc' = "returned"
  /\ UNCHANGED <<readerVars, fault, files, mandatoryChecks, matchPatterns,
                 filesToCheck, fileName, tests, asserted, testIdx, checksRun, log>>

\* variant: a file for which no check ran is exempt
missingChecksExempt(mandatory, run) ==
  IF run = <<>> THEN {} ELSE mandatory \ {run[i] : i \in 1..Len(run)}

\* line 383: mandatoryChecks - set(checksRun)
missingChecks(mandatory, run) == mandatory \ {run[i] : i \in 1..Len(run)}

\* variant: missing mandatory checks are reported only
rejectsFailureOnly(ok, missing) == ~ok

\* lines 380-387: checkhook returns True for this file
rejects(ok, missing) == ~ok \/ Cardinality(missing) > 0

\* lines 380-387: the verdict on the file runTests returned from
GateFile ==
  /\ pc = "returned"
  /\ pc' = IF rejects(success, missingChecks(mandatoryChecks, checksRun))
           THEN "reject" ELSE "loop"
  /\ warnings' = IF success /\ missingChecks(mandatoryChecks, checksRun) # {}
                 THEN warnings + 1 ELSE warnings
  /\ UNCHANGED <<sources, srcIdx, lineIdx, syntax, checks, result, patterns,
                 fault, hookVars>>

\* line 389: no file is left
Accept ==
  /\ pc = "loop"
  /\ filesToCheck = {}
  /\ pc' = "accept"
  /\ UNCHANGED <<readerVars, fault, hookVars>>

(***************************************************************************)
(* A check function called on its own, as the unit tests call it:          *)
(* checkmeta.bomTest("true", data, {"encoding": ("utf8",)})                *)
(***************************************************************************)
CallCheck ==
  /\ pc = "call"
  /\ log' = <<[index |-> 1, asserted |-> asserted,
               error |-> callTest(tests[1], files[fileName], asserted)]>>
  /\ pc' = "called"
  /\ UNCHANGED <<readerVars, fault, files, mandatoryChecks, matchPatterns,
                 filesToCheck, fileName, tests, asserted, testIdx, checksRun, success>>

(***************************************************************************)
(* Inputs                                                                  *)
(***************************************************************************)
SP == <<" ">>

\* " ".join(texts)
RECURSIVE Join(_)
Join(texts) ==
  IF texts = <<>> THEN <<>>
  ELSE IF Len(texts) = 1 THEN texts[1]
  ELSE texts[1] \o SP \o Join(Tail(texts))

\* the text name(arg)
Call(name, arg) == name \o <<"(">> \o arg \o <<")">>

lnSyntaxGlob == wSyntax \o SP \o wGlob
lnSyntaxRe == wSyntax \o SP \o wRe
lnSyntaxInvalid == wSyntax \o SP \o <<"i","n","v","a","l","i","d">>
lnChecksAscii == wChecks \o SP \o Call(wEncoding, wAscii)
lnChecksEnc == wChecks \o SP \o Call(<<"e","n","c">>, wAscii)
lnStar == <<"*">>
lnReX == wRe \o <<":">> \o wX
lnBogusX == wBogus \o <<":">> \o wX
lnComment == <<"#", " ", "c">>

\* the lines the reader specification builds its sources from
ReaderLines ==
  {lnSyntaxGlob, lnSyntaxRe, lnSyntaxInvalid, lnChecksAscii, lnChecksEnc,
   lnStar, lnReX, lnBogusX, lnComment}

\* all sequences over S of length at most n
SeqsUpTo(S, n) == UNION {[1..k -> S] : k \in 0..n}

\* the invocations the hook specification builds its check lists from
CheckTexts ==
  {Call(wEncoding, wAscii), Call(wEncoding, wUtf8), Call(wEncoding, wUtf7),
   Call(wEncoding, wBogus), Call(wEncoding, <<>>),
   Call(wMimetype, wTextPlain), Call(wBmp, <<>>), Call(wBom, wTrue)}

\* file contents: empty, "A", BEL, "A" 0x80, U+00E4, BOM "A", U+10000, U+0085
Contents ==
  {<<>>, <<65>>, <<7>>, <<65, 128>>, <<195, 164>>, BOM_UTF8 \o <<65>>,
   <<240, 144, 128, 128>>, <<194, 133>>}

pathAH == <<"a", ".", "h">>
pathBC == <<"b", ".", "c">>
patStar == <<"*">>
patDotH == <<"*", ".", "h">>
patDotJ == <<"*", ".", "j">>

\* the source text of a table: one checks: line and one pattern line per
\* entry, after a comment and the syntax: glob line
RECURSIVE EntryLines(_)
EntryLines(entries) ==
  IF entries = <<>> THEN <<>>
  ELSE <<wChecks \o SP \o Join(entries[1].checks), entries[1].pat>>
       \o EntryLines(Tail(entries))

ConfigOf(entries) == << <<lnComment, lnSyntaxGlob>> \o EntryLines(entries) >>

\* one pattern that matches the file, every check list up to MaxChecks,
\* every content
EngineCases ==
  {[sources |-> ConfigOf(<<[checks |-> cl, pat |-> patStar]>>),
    files |-> [p \in {pathAH} |-> c],
    mandatory |-> {}] :
     cl \in SeqsUpTo(CheckTexts, MaxChecks), c \in Contents}

\* the check lists, contents and mandatory sets of the gate cases
GateCheckLists ==
  {<<>>, <<Call(wEncoding, wAscii)>>, <<Call(wEncoding, wUtf8), Call(wBom, wTrue)>>}
GateContents == {<<65>>, <<65, 128>>}
GateMandatory == {{}, {wEncoding}, {wBom}}
GatePaths == {pathAH, pathBC}
GateTables ==
  {<<>>} \cup
  {<<[checks |-> c1, pat |-> p1]>> : c1 \in GateCheckLists, p1 \in {patStar, patDotH, patDotJ}}
  \cup
  {<<[checks |-> c1, pat |-> ps[1]], [checks |-> c2, pat |-> ps[2]]>> :
     c1 \in GateCheckLists, c2 \in GateCheckLists,
     ps \in {<<patStar, patDotH>>, <<patDotH, patStar>>}}

\* up to two patterns, batches of up to two files, mandatory names
GateCases ==
  {[sources |-> ConfigOf(t), files |-> f, mandatory |-> m] :
     t \in GateTables,
     f \in UNION {[ps -> GateContents] : ps \in SUBSET GatePaths},
     m \in GateMandatory}

InitCommon ==
  /\ srcIdx = 1
  /\ lineIdx = 1
  /\ syntax = syntaxes(wRegexp)
  /\ checks = <<>>
  /\ result = <<>>
  /\ patterns = <<>>
  /\ warnings = 0
  /\ pc = "read"
  /\ fault = ""
  /\ matchPatterns = <<>>
  /\ filesToCheck = {}
  /\ fileName = <<>>
  /\ tests = <<>>
  /\ asserted = <<>>
  /\ testIdx = 1
  /\ checksRun = <<>>
  /\ success = TRUE
  /\ log = <<>>

\* checkhook is called: configuration sources, changed files and mandatory
\* names are given
Init ==
  /\ \E c \in EngineCases \cup GateCases :
       /\ sources = c.sources
       /\ files = c.files
       /\ mandatoryChecks = c.mandatory
  /\ InitCommon

\* readPatternFiles is called on two sources
InitRead ==
  /\ \E lines \in SeqsUpTo(ReaderLines, MaxLines) :
       \E k \in 0..Len(lines) : sources = <<Take(lines, k), Drop(lines, k)>>
  /\ files = <<>>
  /\ mandatoryChecks = {}
  /\ InitCommon

NextRead == SkipLine \/ SyntaxLine \/ ChecksLine \/ PatternLine \/ EndSource

Next ==
  \/ SkipLine \/ SyntaxLine \/ ChecksLine \/ PatternLine \/ EndSource
  \/ BuildMatchers \/ NextFile \/ RunCheck \/ EndTests \/ GateFile \/ Accept

Spec == Init /\ [][Next]_vars

SpecRead == InitRead /\ [][NextRead]_vars

\* longest first source of the merge specification, after its header
MaxSourceLines == 3
\* longest second source of the merge specification
MaxLaterLines == 2

\* the lines the merge specification builds its two sources from
MergeLines == {lnChecksAscii, lnStar, lnReX}

\* readPatternFiles is called on two sources; the first sets glob, so that
\* "*" is relglob:* in the first and relre:* in the second, and re:x is
\* relre:x in both
InitMerge ==
  /\ \E s1 \in SeqsUpTo(MergeLines, MaxSourceLines) :
       \E s2 \in SeqsUpTo(MergeLines, MaxLaterLines) :
         sources = << <<lnComment, lnSyntaxGlob>> \o s1, s2 >>
  /\ files = <<>>
  /\ mandatoryChecks = {}
  /\ InitCommon

SpecMerge == InitMerge /\ [][NextRead]_vars

\* longest line of the comment specification
MaxLineLen == 5

\* the characters the comment specification builds its lines from
CommentChars == {"a", "#", BSL, " "}

\* readPatterns is called on a source whose third line is any text over
\* CommentChars
InitClean ==
  /\ \E line \in SeqsUpTo(CommentChars, MaxLineLen) :
       sources = << <<lnSyntaxGlob, lnChecksAscii, line>> >>
  /\ files = <<>>
  /\ mandatoryChecks = {}
  /\ InitCommon

SpecClean == InitClean /\ [][NextRead]_vars

\* most fragments of a checks: payload of the parser specification
MaxFragments == 3
\* most arguments of an invocation of the parser specification
MaxArgs == 2

wStray == <<"s","t","r","a","y">>
wInvalidBrackets == <<"i","n","v","a","l","i","d","[","]">>

\* the fragments payloads are made of: two known invocations, one with an
\* unknown name, text without brackets, an invocation whose closing bracket
\* is missing, and the text invalid[]
ParseFragments ==
  {Call(wEncoding, wAscii), Call(wBom, wTrue), Call(wBogus, <<>>),
   wStray, wBom \o <<"(">> \o wTrue, wInvalidBrackets}

\* sep.join(texts)
RECURSIVE JoinWith(_, _)
JoinWith(texts, sep) ==
  IF texts = <<>> THEN <<>>
  ELSE IF Len(texts) = 1 THEN texts[1]
  ELSE texts[1] \o sep \o JoinWith(Tail(texts), sep)

\* payloads of fragments, separated by a space or a tab, written right
\* after checks: or after a space
FragmentPayloads ==
  {lead \o JoinWith(frs, sep) :
     frs \in SeqsUpTo(ParseFragments, MaxFragments),
     lead \in {<<>>, SP}, sep \in {SP, <<"\t">>}}

\* the values and the quote styles of the arguments of an invocation
ArgValues == {<<"a">>, wUtf8}
QuoteStyles == {<<>>, <<"'">>, <<"\"">>}

\* the text of an argument list: each value in its quote style, the
\* arguments separated by a comma and a space
ArgsText(vals, styles) ==
  JoinWith([i \in 1..Len(vals) |-> styles[i] \o vals[i] \o styles[i]], <<",", " ">>)

\* payloads of one encoding invocation with up to MaxArgs arguments
QuotePayloads ==
  UNION {{SP \o Call(wEncoding, ArgsText(vals, styles)) :
            styles \in [1..Len(vals) -> QuoteStyles]} :
           vals \in SeqsUpTo(ArgValues, MaxArgs) \ {<<>>}}

\* readPatterns is called on a source that sets a check list, replaces it
\* by that of a checks: line with the payload, and declares a pattern
InitParse ==
  /\ \E payload \in FragmentPayloads \cup QuotePayloads :
       sources = << <<lnComment, lnSyntaxGlob, lnChecksAscii, wChecks \o payload, lnStar>> >>
  /\ files = <<>>
  /\ mandatoryChecks = {}
  /\ InitCommon

SpecParse == InitParse /\ [][NextRead]_vars

\* longest pattern line the resolver specification enumerates
MaxPatternLen == 4

\* the characters these lines are made of: alphanumerics of each kind, the
\* colon and an opening bracket
ResolveChars == {"a", "Z", "0", ":", "["}

lnCharClass == <<"d","i","r","/","[","a","-","z",":","]","*",".","c","p","p">>
lnFileCpp == <<"f","i","l","e",".","c","p","p">>

\* the pattern texts written after an explicit prefix
PatternTexts == {<<>>, wX, patDotH, <<"a", ":", "b">>, lnCharClass}

\* the prefixes of ExpressionParser.syntaxes(), keys and values
PrefixWords == {wRe, wRegexp, wRelre, wGlob, wRelglob}

ResolveLines ==
  (SeqsUpTo(ResolveChars, MaxPatternLen) \ {<<>>})
  \cup {lnCharClass, lnFileCpp}
  \cup {p \o <<":">> \o x : p \in PrefixWords, x \in PatternTexts}

\* readPatterns is called on a source that sets the default syntax and
\* declares one pattern line
InitResolve ==
  /\ \E syn \in {lnSyntaxGlob, lnSyntaxRe} : \E line \in ResolveLines :
       sources = << <<lnComment, syn, lnChecksAscii, line>> >>
  /\ files = <<>>
  /\ mandatoryChecks = {}
  /\ InitCommon

SpecResolve == InitResolve /\ [][NextRead]_vars

\* the state in which a check function is called on its own
InitCall(test, content, assertedSet) ==
  /\ sources = <<>>
  /\ srcIdx = 1
  /\ lineIdx = 1
  /\ syntax = syntaxes(wRegexp)
  /\ checks = <<>>
  /\ result = <<>>
  /\ patterns = <<>>
  /\ warnings = 0
  /\ pc = "call"
  /\ fault = ""
  /\ files = [p \in {pathAH} |-> content]
  /\ mandatoryChecks = {}
  /\ matchPatterns = <<>>
  /\ filesToCheck = {}
  /\ fileName = pathAH
  /\ tests = <<test>>
  /\ asserted = assertedSet
  /\ testIdx = 1
  /\ checksRun = <<>>
  /\ success = TRUE
  /\ log = <<>>

\* the tokens bom is called with
BomTokens ==
  {wTrue, <<"T","r","u","e">>, <<"Y","E","S">>, <<"y">>, <<"o","n">>, <<"1">>,
   wFalse, <<"n","o">>, <<"0">>, <<"t","r","u">>}

\* the asserted encodings bom is called under, each with the marks the
\* encoding variant allows and whether it is a UTF-16 variant
BomEncodings ==
  {[name |-> <<"u","t","f","8">>, marks |-> {BOM_UTF8}, is16 |-> FALSE],
   [name |-> wUtf8, marks |-> {BOM_UTF8}, is16 |-> FALSE],
   [name |-> <<"U","T","F","_","8">>, marks |-> {BOM_UTF8}, is16 |-> FALSE],
   [name |-> <<"u","t","f","-","8","-","s","i","g">>, marks |-> {BOM_UTF8}, is16 |-> FALSE],
   [name |-> <<"u","t","f","1","6">>, marks |-> {BOM_UTF16_LE, BOM_UTF16_BE}, is16 |-> TRUE],
   [name |-> <<"U","T","F","-","1","6">>, marks |-> {BOM_UTF16_LE, BOM_UTF16_BE}, is16 |-> TRUE],
   [name |-> <<"u","t","f","-","1","6","l","e">>, marks |-> {BOM_UTF16_LE}, is16 |-> TRUE],
   [name |-> <<"u","t","f","-","1","6","-","b","e">>, marks |-> {BOM_UTF16_BE}, is16 |-> TRUE],
   [name |-> <<"u","t","f","3","2">>, marks |-> {BOM_UTF32_LE, BOM_UTF32_BE}, is16 |-> FALSE],
   [name |-> <<"u","t","f","-","3","2">>, marks |-> {BOM_UTF32_LE, BOM_UTF32_BE}, is16 |-> FALSE],
   [name |-> <<"u","t","f","_","3","2","_","l","e">>, marks |-> {BOM_UTF32_LE}, is16 |-> FALSE],
   [name |-> <<"u","t","f","-","3","2","b","e">>, marks |-> {BOM_UTF32_BE}, is16 |-> FALSE],
   [name |-> wUtf7, marks |-> {}, is16 |-> FALSE],
   [name |-> wAscii, marks |-> {}, is16 |-> FALSE],
   [name |-> wLatin1, marks |-> {}, is16 |-> FALSE]}

\* the assertion sets: none, or the encoding with other assertions or without
BomAsserted ==
  {<<>>, [n \in {wMimetype} |-> <<wTextPlain>>]}
  \cup {[n \in {wEncoding} |-> <<e.name>>] : e \in BomEncodings}
  \cup {[n \in {wEncoding, wMimetype} |->
           IF n = wEncoding THEN <<wUtf8>> ELSE <<wTextPlain>>]}

\* contents: none, text, each mark alone and before text, and parts of marks
BomContents ==
  {<<>>, <<97, 98, 99>>,
   BOM_UTF8, BOM_UTF8 \o <<65>>,
   BOM_UTF16_LE, BOM_UTF16_LE \o <<65, 0>>, BOM_UTF16_BE, BOM_UTF16_BE \o <<0, 65>>,
   BOM_UTF32_LE, BOM_UTF32_LE \o <<65, 0, 0, 0>>, BOM_UTF32_BE, BOM_UTF32_BE \o <<0, 0, 0, 65>>,
   <<239, 187>>, <<255>>, <<0, 0>>, <<255, 254, 0>>, <<254, 255, 0, 0>>, <<0, 0, 254>>}

\* bomTest is called on its own
InitBom ==
  \E tok \in BomTokens : \E content \in BomContents : \E a \in BomAsserted :
    InitCall([name |-> wBom, args |-> <<tok>>], content, a)

SpecBom == InitBom /\ [][CallCheck]_vars

\* contents of the direct calls of mimetype and encoding: every byte
\* sequence of up to MaxContentLen bytes over control characters, text,
\* DEL, and the lead and continuation bytes of U+0080..U+00FF
MaxContentLen == 2

ContentBytes == {7, 9, 10, 31, 32, 65, 127, 128, 159, 160, 194, 195}

CallContents == SeqsUpTo(ContentBytes, MaxContentLen)

\* the types mimetype is called with
MimeTypes == {wTextPlain, wText, wImagePng, <<"T","e","x","t","/","p","l","a","i","n">>}

\* the asserted encodings mimetype is called under
MimeEncodings ==
  {wAscii, <<"A","S","C","I","I">>, wLatin1, <<"i","s","o","-","8","8","5","9","-","1">>,
   <<"i","s","o","8","8","5","9","-","1">>, <<"c","p","1","2","5","2">>,
   wBinary, <<"l","1">>, wUtf8, <<"U","T","F","-","8">>, wUtf7}

MimeAsserted == {<<>>} \cup {[n \in {wEncoding} |-> <<e>>] : e \in MimeEncodings}

\* mimeTest is called on its own
InitMime ==
  \E type \in MimeTypes : \E content \in CallContents : \E a \in MimeAsserted :
    InitCall([name |-> wMimetype, args |-> <<type>>], content, a)

SpecMime == InitMime /\ [][CallCheck]_vars

\* the names encoding is called with
EncodingNames == {wBinary, wAscii, wUtf8, wLatin1, wBogus}

\* encodingTest is called on its own
InitEncoding ==
  \E name \in EncodingNames : \E content \in CallContents :
    \E a \in {<<>>, [n \in {wMimetype} |-> <<wTextPlain>>]} :
      InitCall([name |-> wEncoding, args |-> <<name>>], content, a)

SpecEncoding == InitEncoding /\ [][CallCheck]_vars

\* batches: every assignment of a content (text, BEL, an invalid UTF-8
\* byte) to every subset of three paths
pathCH == <<"c", ".", "h">>
BatchPaths == {pathAH, pathBC, pathCH}
BatchContents == {<<65>>, <<7>>, <<65, 128>>}
BatchFiles == UNION {[ps -> BatchContents] : ps \in SUBSET BatchPaths}

\* tables: none; one pattern for every file whose mimetype check passes,
\* fails or raises with the content; one pattern for some of the files;
\* two patterns that overlap
BatchTables ==
  {<<>>,
   <<[checks |-> <<Call(wMimetype, wTextPlain), Call(wEncoding, wUtf8)>>, pat |-> patStar]>>,
   <<[checks |-> <<Call(wEncoding, wAscii)>>, pat |-> patDotH]>>,
   <<[checks |-> <<Call(wEncoding, wAscii)>>, pat |-> patDotH],
     [checks |-> <<Call(wEncoding, wUtf8), Call(wBom, wTrue)>>, pat |-> patStar]>>}

\* checkhook is called on a batch of up to three files
InitBatch ==
  /\ \E t \in BatchTables : \E f \in BatchFiles : \E m \in {{}, {wEncoding}} :
       /\ sources = ConfigOf(t)
       /\ files = f
       /\ mandatoryChecks = m
  /\ InitCommon

SpecBatch == InitBatch /\ [][Next]_vars

\* longest first source of the declaration-order specification, after its header
MaxFirstDecls == 3
\* longest second source of the declaration-order specification, after its header
MaxLaterDecls == 2

\* the lines of the declaration-order specification: two overlapping glob
\* patterns and a checks: line
DeclLines == {lnChecksAscii, lnStar, patDotH}

\* checkhook is called with two sources, both in glob syntax, on the file a.h
InitOrder ==
  /\ \E s1 \in SeqsUpTo(DeclLines, MaxFirstDecls) :
       \E s2 \in SeqsUpTo(DeclLines, MaxLaterDecls) :
         sources = << <<lnComment, lnSyntaxGlob>> \o s1, <<lnSyntaxGlob>> \o s2 >>
  /\ files = [p \in {pathAH} |-> <<65>>]
  /\ mandatoryChecks = {}
  /\ InitCommon

SpecOrder == InitOrder /\ [][Next]_vars

(***************************************************************************)
(* The editor: readPatterns as one call, loadFilePatterns and              *)
(* storeFilePatterns of CheckConfigurationDialog.  The table of the dialog *)
(* is patterns; sources holds the texts of the edited file, the last one   *)
(* being the file as it is now.                                            *)
(***************************************************************************)
\* the for loop of readPatterns from line i on (lines 230-248)
RECURSIVE readFrom(_, _, _, _, _, _, _)
readFrom(iterable, i, decodeChecks, syn, chk, res, warns) ==
  IF i > Len(iterable) THEN [raised |-> FALSE, table |-> res, warns |-> warns]
  ELSE
    LET line == cleanLine(iterable[i])
    IN IF line = <<>>
       THEN readFrom(iterable, i + 1, decodeChecks, syn, chk, res, warns)
       ELSE IF StartsWith(line, wSyntax)
       THEN LET name == Strip(Drop(line, 7))
            IN readFrom(iterable, i + 1, decodeChecks, newSyntax(name, syn), chk, res,
                        IF name \in SyntaxNames THEN warns ELSE warns + 1)
       ELSE IF StartsWith(line, wChecks)
       THEN LET parsed == parseChecks(Drop(line, 7), decodeChecks)
            IN readFrom(iterable, i + 1, decodeChecks, syn, parsed.checks, res,
                        warns + parsed.warns)
       ELSE LET parsed == parseExpression(line, syn)
            IN IF parsed.raised
               THEN [raised |-> TRUE, table |-> <<>>, warns |-> warns]
               ELSE readFrom(iterable, i + 1, decodeChecks, syn, chk,
                             Put(res, parsed.key, chk), warns)

\* readPatterns(hgUi, iterable, decodeChecks), lines 217-248
readPatterns(iterable, decodeChecks) ==
  readFrom(iterable, 1, decodeChecks, syntaxes(wRegexp), <<>>, <<>>, 0)

\* pat.split(':')[0]
SyntaxOfKey(key) == Take(key, IndexOf(key, ":"))

\* __mostCommonSyntax, lines 723-728: the resolved syntaxes that
\* max(set(syntaxList), key=syntaxList.count) can return; among syntaxes
\* of equal count the iteration order of the set decides
mostCommonSyntaxes(table) ==
  LET count(s) == Cardinality({i \in 1..Len(table) : SyntaxOfKey(table[i].key) = s})
      used == {SyntaxOfKey(table[i].key) : i \in 1..Len(table)}
  IN {s \in used : \A t \in used : count(t) <= count(s)}

\* ExpressionParser.invertedSyntaxes()[syntax], lines 87-93: of the two
\* names of relre the one the dictionary yields last
invertedSyntaxes(resolved) ==
  IF resolved = wRelglob THEN {wGlob}
  ELSE IF resolved = wRelre THEN {wRe, wRegexp}
  ELSE {}

\* the rows storeFilePatterns writes from row on (lines 747-757);
\* lastChecks is <<>> for None and <<text>> for a text
RECURSIVE storeRows(_, _, _, _)
storeRows(table, row, lastChecks, defaultSyntaxResolved) ==
  IF row > Len(table) THEN <<>>
  ELSE
    LET pattern == table[row].key
        checksText == Join(table[row].checks)
        head == IF lastChecks # <<checksText>>
                THEN << <<>>, wChecks \o SP \o checksText >>
                ELSE <<>>
        written == IF StartsWith(pattern, defaultSyntaxResolved)
                   THEN Drop(pattern, Len(defaultSyntaxResolved) + 1)
                   ELSE pattern
    IN head \o <<written>>
       \o storeRows(table, row + 1, <<checksText>>, defaultSyntaxResolved)

\* the lines storeFilePatterns writes (lines 741-757)
storeFilePatterns(table, defaultSyntax, defaultSyntaxResolved) ==
  << wSyntax \o SP \o defaultSyntax >> \o storeRows(table, 1, <<>>, defaultSyntaxResolved)

\* loadFilePatterns, lines 759-765
LoadFilePatterns ==
  /\ pc \in {"edit", "stored"}
  /\ LET read == readPatterns(sources[Len(sources)], FALSE)
     IN /\ warnings' = warnings + read.warns
        /\ IF read.raised
           THEN /\ pc' = "raised"
                /\ fault' = "KeyError"
                /\ UNCHANGED patterns
           ELSE /\ patterns' = read.table
                /\ pc' = IF pc = "edit" THEN "loaded" ELSE "reloaded"
                /\ UNCHANGED fault
  /\ UNCHANGED <<sources, srcIdx, lineIdx, syntax, checks, result, hookVars>>

\* storeFilePatterns, lines 737-757, with no item selected in the list
StoreFilePatterns ==
  /\ pc = "loaded"
  /\ IF patterns = <<>>
     THEN sources' = Append(sources, <<>>)
     ELSE \E resolved \in mostCommonSyntaxes(patterns) :
            \E name \in invertedSyntaxes(resolved) :
              sources' = Append(sources, storeFilePatterns(patterns, name, resolved))
  /\ pc' = "stored"
  /\ UNCHANGED <<srcIdx, lineIdx, syntax, checks, result, patterns, warnings,
                 fault, hookVars>>

NextEdit == LoadFilePatterns \/ StoreFilePatterns

\* the edited file: up to MaxEditLines lines, among them a pattern with an
\* escaped "#", patterns of both syntaxes and a pattern whose text begins
\* with an alias and a colon
MaxEditLines == 3

lnEscapedHash == <<"a", BSL, "#", "b">>
lnReGlobX == wRe \o <<":">> \o wGlob \o <<":">> \o wX
lnGlobDotH == wGlob \o <<":">> \o patDotH
lnChecksAsciiBom == wChecks \o SP \o Call(wEncoding, wAscii) \o SP \o Call(wBom, wFalse)

PlainEditLines == {lnSyntaxGlob, lnChecksAscii, lnChecksAsciiBom, lnStar, lnReX, lnGlobDotH}

EditLines == PlainEditLines \cup {lnEscapedHash, lnReGlobX}

\* the dialog is opened on a file
InitEdit ==
  /\ \E text \in SeqsUpTo(EditLines, MaxEditLines) : sources = <<text>>
  /\ srcIdx = 1
  /\ lineIdx = 1
  /\ syntax = syntaxes(wRegexp)
  /\ checks = <<>>
  /\ result = <<>>
  /\ patterns = <<>>
  /\ warnings = 0
  /\ pc = "edit"
  /\ fault = ""
  /\ files = <<>>
  /\ mandatoryChecks = {}
  /\ matchPatterns = <<>>
  /\ filesToCheck = {}
  /\ fileName = <<>>
  /\ tests = <<>>
  /\ asserted = <<>>
  /\ testIdx = 1
  /\ checksRun = <<>>
  /\ success = TRUE
  /\ log = <<>>

SpecEdit == InitEdit /\ [][NextEdit]_vars

TypeOK ==
  /\ pc \in {"read", "loop", "apply", "returned", "reject", "accept", "raised",
            "call", "called", "edit", "loaded", "stored", "reloaded"}
  /\ warnings \in Nat

(***************************************************************************)
(* What the input declares, recomputed from the source text alone          *)
(***************************************************************************)
Max(S) == CHOOSE x \in S : \A y \in S : y <= x

Clean(src, i) == cleanLine(src[i])

IsSyntaxLine(l) == l # <<>> /\ StartsWith(l, wSyntax)
IsChecksLine(l) == l # <<>> /\ ~StartsWith(l, wSyntax) /\ StartsWith(l, wChecks)
IsPatternLine(l) == l # <<>> /\ ~StartsWith(l, wSyntax) /\ ~StartsWith(l, wChecks)

\* the keyword of a syntax: line
SyntaxWord(l) == Strip(Drop(l, 7))

\* a pattern line with no leading <alphanumeric>: prefix
BarePattern(l) == IsPatternLine(l) /\ ~HasPrefix(l)

\* a pattern line whose prefix is neither an alias nor a canonical keyword
UnknownPrefix(l) ==
  /\ IsPatternLine(l)
  /\ HasPrefix(l)
  /\ Take(l, AlnumRun(l)) \notin {wRe, wRegexp, wGlob, wRelre, wRelglob}

\* the default syntax declared for line i of src: that of the last syntax:
\* line with a recognized keyword before i, relre when there is none
DeclaredSyntax(src, i) ==
  LET J == {j \in 1..(i - 1) :
              IsSyntaxLine(Clean(src, j)) /\ SyntaxWord(Clean(src, j)) \in {wRe, wRegexp, wGlob}}
  IN IF J = {} THEN wRelre
     ELSE IF SyntaxWord(Clean(src, Max(J))) = wGlob THEN wRelglob ELSE wRelre

\* the check list declared for line i of src: that of the last checks: line
\* before i, the empty list when there is none
DeclaredChecks(src, i) ==
  LET J == {j \in 1..(i - 1) : IsChecksLine(Clean(src, j))}
  IN IF J = {} THEN <<>>
     ELSE parseChecks(Drop(Clean(src, Max(J)), 7), TRUE).checks

\* the descriptor declared by pattern line i of src
DeclaredKey(src, i) == parseExpression(Clean(src, i), DeclaredSyntax(src, i)).key

\* the pattern lines of the current source the reader has gone through
DonePatternLines ==
  {i \in 1..(lineIdx - 1) : i <= Len(sources[srcIdx]) /\ IsPatternLine(Clean(sources[srcIdx], i))}

\* the warnings a line calls for: one for a syntax: line with an unknown
\* keyword, those of the check parser for a checks: line
LineWarnings(l) ==
  IF IsSyntaxLine(l) THEN (IF SyntaxWord(l) \in {wRe, wRegexp, wGlob} THEN 0 ELSE 1)
  ELSE IF IsChecksLine(l) THEN parseChecks(Drop(l, 7), TRUE).warns
  ELSE 0

RECURSIVE SumWarnings(_, _)
SumWarnings(src, n) ==
  IF n = 0 THEN 0 ELSE SumWarnings(src, n - 1) + LineWarnings(Clean(src, n))

\* the warnings called for by the lines gone through so far
DeclaredWarnings ==
  LET done(s) == IF s < srcIdx THEN Len(sources[s])
                 ELSE IF s = srcIdx THEN lineIdx - 1 ELSE 0
      sum[s \in 0..Len(sources)] ==
        IF s = 0 THEN 0 ELSE sum[s - 1] + SumWarnings(sources[s], done(s))
  IN sum[Len(sources)]

KeySet(d) == {d[i].key : i \in 1..Len(d)}

relreKey(line) == wRelre \o <<":">> \o line
relglobKey(line) == wRelglob \o <<":">> \o line

(***************************************************************************)
(* What a check list yields on a content, recomputed without the loop      *)
(***************************************************************************)
Names(testList) == [i \in 1..Len(testList) |-> testList[i].name]

\* the first check of the list that does not pass, 0 when all pass
FirstNotOk(testList, content) ==
  LET bad == {i \in 1..Len(testList) :
                callTest(testList[i], content, makeAsserted(testList)) # "ok"}
  IN IF bad = {} THEN 0 ELSE CHOOSE i \in bad : \A j \in bad : i <= j

ListResult(testList, content) ==
  LET k == FirstNotOk(testList, content)
  IN IF k = 0 THEN [kind |-> "pass", run |-> Names(testList)]
     ELSE IF callTest(testList[k], content, makeAsserted(testList)) = "fail"
     THEN [kind |-> "fail", run |-> Names(SubSeq(testList, 1, k - 1))]
     ELSE [kind |-> "raise", run |-> Names(SubSeq(testList, 1, k - 1))]

\* the result of runTests for file f under the iteration order in force
FileResult(f) ==
  LET m == firstMatch(matchPatterns, f)
  IN IF m = 0 THEN [kind |-> "pass", run |-> <<>>]
     ELSE ListResult(matchPatterns[m].checks, files[f])

SetOf(q) == {q[i] : i \in 1..Len(q)}

\* every changed file matches some pattern of the table
AllMatch == \A f \in DOMAIN files : firstMatch(patterns, f) # 0

\* a batch of files none of which matches a pattern of the table
NoneMatch == DOMAIN files # {} /\ \A f \in DOMAIN files : firstMatch(patterns, f) = 0

(***************************************************************************)
(* Claims                                                                  *)
(***************************************************************************)

\* C1: verification applies the check list of the first descriptor, in the
\* declaration order of the configuration (the order of the table
\* readPatternFiles returns), whose matcher matches the path; when no
\* descriptor matches, no check is invoked and the result is ([], pass).
C1_FirstDeclaredMatch ==
  pc \in {"apply", "returned"} =>
    LET m == firstMatch(patterns, fileName)
    IN IF m = 0
       THEN tests = <<>> /\ log = <<>> /\ checksRun = <<>> /\ success
       ELSE tests = patterns[m].checks

\* C2 as stated: the assertion set handed to check i holds exactly the
\* argument tuples of the checks at indices 0..i-1 of the list.
C2_AssertedIsPrefix ==
  \A k \in 1..Len(log) :
    LET before == SubSeq(tests, 1, log[k].index - 1)
    IN /\ DOMAIN log[k].asserted = SetOf(Names(before))
       /\ \A j \in 1..Len(before) :
            (\A l \in (j + 1)..Len(before) : before[l].name # before[j].name)
              => log[k].asserted[before[j].name] = before[j].args

\* C2 as amended: the assertion set handed to every check of the list is
\* the same: it maps each check name that occurs anywhere in the list, the
\* called check and the checks declared after it included, to the argument
\* tuple of the last check declared with that name.
C2_AssertedIsWholeList ==
  \A k \in 1..Len(log) :
    /\ DOMAIN log[k].asserted = SetOf(Names(tests))
    /\ \A j \in 1..Len(tests) :
         (\A l \in (j + 1)..Len(tests) : tests[l].name # tests[j].name)
           => log[k].asserted[tests[j].name] = tests[j].args

\* C2 witness: a mimetype check declared before the encoding check has been
\* called, and the assertion set it got holds the encoding declared after it
C2_Witness ==
  /\ Len(tests) = 2
  /\ tests[1].name = wMimetype
  /\ tests[2] = [name |-> wEncoding, args |-> <<wUtf8>>]
  /\ Len(log) >= 1
  /\ log[1].index = 1
  /\ wEncoding \in DOMAIN log[1].asserted
  /\ log[1].asserted[wEncoding] = <<wUtf8>>

\* C3: checks are called in declared order and the run stops at the first
\* check that returns a failure reason: no later check is called, the
\* returned list is the names of the checks before it and the verdict is
\* fail; when every check passes the returned list is all declared names in
\* order and the verdict is pass.
C3_StopAtFirstFailure ==
  /\ \A k \in 1..Len(log) :
       log[k].index = k /\ (k < Len(log) => log[k].error = "ok")
  /\ pc = "returned" =>
       LET r == ListResult(tests, files[fileName])
       IN /\ r.kind \in {"pass", "fail"}
          /\ success = (r.kind = "pass")
          /\ checksRun = r.run
          /\ Len(log) = IF r.kind = "pass" THEN Len(tests) ELSE Len(r.run) + 1

\* C3 witness: the second of two checks failed, the first is the list returned
C3_Witness ==
  /\ pc = "returned"
  /\ ~success
  /\ Len(tests) = 2
  /\ Len(log) = 2
  /\ log[2].error = "fail"
  /\ checksRun = <<tests[1].name>>

\* C4: when every changed file matches some pattern, the gate rejects the
\* batch only if some file fails a check or passes with a mandatory name
\* missing from the checks that ran for it, and accepts it only if every
\* file passes with all mandatory names among the checks that ran.
C4_GateVerdict ==
  AllMatch =>
    /\ pc = "reject" =>
         \E f \in DOMAIN files :
           \/ FileResult(f).kind = "fail"
           \/ FileResult(f).kind = "pass" /\ ~(mandatoryChecks \subseteq SetOf(FileResult(f).run))
    /\ pc = "accept" =>
         \A f \in DOMAIN files :
           FileResult(f).kind = "pass" /\ mandatoryChecks \subseteq SetOf(FileResult(f).run)

\* C4 witness: a batch of matching files is rejected although the file at
\* hand passed all its checks: a mandatory check did not run for it
C4_Witness ==
  /\ pc = "reject"
  /\ DOMAIN files # {}
  /\ AllMatch
  /\ success
  /\ Len(checksRun) >= 1
  /\ mandatoryChecks # {}

\* C5 as stated: with a non-empty mandatory set, a batch of files that match
\* no pattern is accepted (not rejected).
C5_UnmatchedExempt ==
  (NoneMatch /\ mandatoryChecks # {}) => pc # "reject"

\* C5 as amended: a file that matches no pattern is not exempt from the
\* mandatory-check requirement: a non-empty batch of files that match no
\* pattern is rejected when the mandatory set is non-empty and accepted
\* only when it is empty.
C5_UnmatchedNotExempt ==
  NoneMatch =>
    /\ pc = "accept" => mandatoryChecks = {}
    /\ pc = "reject" => mandatoryChecks # {}
    /\ (pc = "loop" /\ mandatoryChecks # {}) => filesToCheck = DOMAIN files

\* C5 witness: a batch of unmatched files is rejected for its mandatory names
C5_Witness ==
  /\ pc = "reject"
  /\ NoneMatch
  /\ patterns # <<>>
  /\ mandatoryChecks # {}
  /\ checksRun = <<>>
  /\ success

\* C6: no accepted configuration and no content makes verification end in
\* an unhandled fault: running a check list ends in a pass or fail verdict
\* and the gate in accept or reject.
C6_NoUnhandledFault ==
  pc # "raised" /\ fault = ""

\* C7: on a pattern line with an unknown prefix the reader emits exactly one
\* warning, adds no entry and goes on with the next line.
C7_WarnAndSkip ==
  [][(Reading /\ UnknownPrefix(curLine)) =>
       /\ warnings' = warnings + 1
       /\ result' = result
       /\ lineIdx' = lineIdx + 1
       /\ pc' = "read"
       /\ syntax' = syntax
       /\ checks' = checks]_vars

\* C8 as stated: a bare pattern line at the top of the second source gets
\* the default syntax and the check list in force at the end of the first.
C8_StatePersists ==
  (pc = "read" /\ Len(sources) >= 2 /\ srcIdx = 2 /\ lineIdx = 2
     /\ BarePattern(Clean(sources[2], 1))) =>
    result = <<[key |-> DeclaredSyntax(sources[1], Len(sources[1]) + 1)
                          \o <<":">> \o Clean(sources[2], 1),
                checks |-> DeclaredChecks(sources[1], Len(sources[1]) + 1)]>>

\* C8 as amended: every source is read from the initial state: at the start
\* of the second source the default syntax is relre and the pending check
\* list is empty, whatever the first source set, so a bare pattern line at
\* the top of the second source gets relre and the empty check list.
C8_StateReset ==
  /\ (Len(sources) >= 2 /\ srcIdx = 2 /\ lineIdx = 1) =>
       syntax = wRelre /\ checks = <<>>
  /\ (pc = "read" /\ Len(sources) >= 2 /\ srcIdx = 2 /\ lineIdx = 2
        /\ BarePattern(Clean(sources[2], 1))) =>
       result = <<[key |-> relreKey(Clean(sources[2], 1)), checks |-> <<>>]>>

\* C8 witness: the first source sets glob and a check list, the bare pattern
\* of the second source is entered as relre with no checks
C8_Witness ==
  /\ sources = << <<lnSyntaxGlob, lnChecksAscii>>, <<lnStar>> >>
  /\ srcIdx = 2
  /\ lineIdx = 2
  /\ result = <<[key |-> relreKey(lnStar), checks |-> <<>>]>>

\* C9: within one source a syntax: line with a recognized keyword sets the
\* default syntax of the unprefixed pattern lines after it and of none
\* before it; one with an unrecognized keyword emits one warning and leaves
\* the previous default, which is relre before any syntax: line.
C9_SyntaxLines ==
  (pc \in {"read", "raised"} /\ srcIdx <= Len(sources)) =>
    /\ KeySet(result) = {DeclaredKey(sources[srcIdx], i) : i \in DonePatternLines}
    /\ warnings = DeclaredWarnings

\* C9 witness: glob is set, an invalid keyword warns and leaves glob, the
\* bare pattern is entered as relglob
C9_Witness ==
  /\ sources[1] = <<lnSyntaxGlob, lnSyntaxInvalid, lnStar>>
  /\ srcIdx = 1
  /\ lineIdx = 4
  /\ warnings = 1
  /\ KeySet(result) = {relglobKey(lnStar)}

\* C10: within one source every pattern line is mapped to the check list of
\* the most recent checks: line before it (the empty list when there is
\* none or when it parsed to nothing); a checks: line does not change the
\* check list of a pattern declared before it.
C10_PendingChecks ==
  (pc \in {"read", "raised"} /\ srcIdx <= Len(sources)) =>
    \A i \in DonePatternLines :
      (\A j \in DonePatternLines :
         j > i => DeclaredKey(sources[srcIdx], j) # DeclaredKey(sources[srcIdx], i))
      => /\ HasKey(result, DeclaredKey(sources[srcIdx], i))
         /\ Get(result, DeclaredKey(sources[srcIdx], i)) = DeclaredChecks(sources[srcIdx], i)

\* C10 witness: a pattern declared under encoding(ascii) keeps it after a
\* later checks: line, which parsed to nothing and emptied the pending list
C10_Witness ==
  /\ sources[1] = <<lnChecksAscii, lnStar, lnChecksEnc>>
  /\ sources[2] = <<>>
  /\ srcIdx = 1
  /\ lineIdx = 4
  /\ checks = <<>>
  /\ result = <<[key |-> relreKey(lnStar),
                 checks |-> <<[name |-> wEncoding, args |-> <<wAscii>>]>>]>>

(***************************************************************************)
(* What a source declares for a descriptor; cl is the source with every    *)
(* line cleaned of its comment                                             *)
(***************************************************************************)
RECURSIVE CleanAll(_)
CleanAll(src) ==
  IF src = <<>> THEN <<>> ELSE <<cleanLine(src[1])>> \o CleanAll(Tail(src))

\* the default syntax in force at line i: that of the last syntax: line
\* with a recognized keyword before it
SyntaxAt(cl, i) ==
  LET J == {j \in 1..(i - 1) :
              IsSyntaxLine(cl[j]) /\ SyntaxWord(cl[j]) \in {wRe, wRegexp, wGlob}}
  IN IF J = {} THEN wRelre
     ELSE IF SyntaxWord(cl[Max(J)]) = wGlob THEN wRelglob ELSE wRelre

\* the check list pending at line i: that of the last checks: line before it
ChecksAt(cl, i) ==
  LET J == {j \in 1..(i - 1) : IsChecksLine(cl[j])}
  IN IF J = {} THEN <<>> ELSE parseChecks(Drop(cl[Max(J)], 7), TRUE).checks

\* the descriptor of each pattern line among the first n lines
KeysAt(cl, n) ==
  [i \in {j \in 1..n : IsPatternLine(cl[j])} |-> parseExpression(cl[i], SyntaxAt(cl, i)).key]

\* the table the first n lines declare: each descriptor with the check list
\* pending at its last declaration
DeclaredTable(cl, n) ==
  LET keys == KeysAt(cl, n)
  IN [k \in {keys[i] : i \in DOMAIN keys} |->
        ChecksAt(cl, Max({i \in DOMAIN keys : keys[i] = k}))]

\* a table as a function from descriptors to check lists
AsFunction(d) == [k \in KeySet(d) |-> Get(d, k)]

NoDuplicateKey(d) == \A i, j \in 1..Len(d) : d[i].key = d[j].key => i = j

\* C11: a descriptor declared again, in the same source or in a later one,
\* gets the check list pending at its last declaration, not the two lists
\* merged; every other descriptor keeps the list of its own last
\* declaration; no table holds a descriptor twice.
C11_RedeclareReplaces ==
  /\ NoDuplicateKey(result)
  /\ NoDuplicateKey(patterns)
  /\ (pc = "read" /\ srcIdx <= Len(sources)) =>
       AsFunction(result) = DeclaredTable(CleanAll(sources[srcIdx]), lineIdx - 1)
  /\ pc = "read" =>
       LET tableOf == [s \in 1..(srcIdx - 1) |->
                         DeclaredTable(CleanAll(sources[s]), Len(sources[s]))]
       IN /\ KeySet(patterns) = UNION {DOMAIN tableOf[s] : s \in 1..(srcIdx - 1)}
          /\ \A k \in KeySet(patterns) :
               Get(patterns, k) =
                 tableOf[Max({s \in 1..(srcIdx - 1) : k \in DOMAIN tableOf[s]})][k]

\* C11 witness: re:x, declared under encoding(ascii) in the first source, is
\* declared again with no pending checks in the second: its list is replaced
\* by the empty one and the entry of "*" is as the first source left it
C11_Witness ==
  /\ sources = << <<lnComment, lnSyntaxGlob, lnChecksAscii, lnStar, lnReX>>, <<lnReX>> >>
  /\ srcIdx = 3
  /\ patterns = <<[key |-> relglobKey(lnStar),
                   checks |-> <<[name |-> wEncoding, args |-> <<wAscii>>]>>],
                  [key |-> relreKey(wX), checks |-> <<>>]>>

(***************************************************************************)
(* Checks that need an encoding assertion                                  *)
(***************************************************************************)
\* the check is bmp() or bom(true)
NeedsUnicode(test) ==
  \/ test.name = wBmp /\ test.args = <<>>
  \/ test.name = wBom /\ test.args = <<wTrue>>

\* an encoding check whose argument names a unicode-family encoding
IsUnicodeEncodingCheck(test) ==
  /\ test.name = wEncoding
  /\ Len(test.args) >= 1
  /\ StartsWith(Lower(test.args[1]), wUtf)

\* an encoding check whose argument names another encoding
IsOtherEncodingCheck(test) ==
  /\ test.name = wEncoding
  /\ Len(test.args) >= 1
  /\ ~StartsWith(Lower(test.args[1]), wUtf)

\* the call logged at k returned a failure reason and the file is rejected
FailedAndRejected(k) ==
  /\ log[k].error = "fail"
  /\ k = Len(log)
  /\ pc \in {"returned", "reject"}
  /\ ~success

Min(S) == CHOOSE x \in S : \A y \in S : x <= y

\* the text before position h (all of it when h = 0) with the backslash of
\* every \# dropped and the trailing whitespace removed
TextBefore(line, h) ==
  LET kept == IF h = 0 THEN line ELSE SubSeq(line, 1, h - 1)
      I == {i \in 1..Len(kept) : ~(kept[i] = BSL /\ i < Len(kept) /\ kept[i + 1] = "#")}
      pick[n \in 0..Len(kept)] ==
        IF n = 0 THEN <<>>
        ELSE IF n \in I THEN Append(pick[n - 1], kept[n]) ELSE pick[n - 1]
      t == pick[Len(kept)]
      last == Max({0} \cup {i \in 1..Len(t) : ~IsSpace(t[i])})
  IN SubSeq(t, 1, last)

\* the first "#" with no backslash right before it, 0 when there is none
FirstPlainHash(line) ==
  LET H == {i \in 1..Len(line) : line[i] = "#" /\ (i = 1 \/ line[i - 1] # BSL)}
  IN IF H = {} THEN 0 ELSE Min(H)

\* the number of consecutive backslashes that end right before position i
BackslashesBefore(line, i) ==
  Max({n \in 0..(i - 1) : \A j \in (i - n)..(i - 1) : line[j] = BSL})

\* the first "#" with an even number of backslashes right before it
FirstUnescapedHash(line) ==
  LET H == {i \in 1..Len(line) : line[i] = "#" /\ BackslashesBefore(line, i) % 2 = 0}
  IN IF H = {} THEN 0 ELSE Min(H)

\* the reader has gone through the third line of the only source, which had
\* the text t to work on: an empty t added no entry and left the default
\* syntax and the pending list, any other t is entered as a pattern
ReadAs(t) ==
  /\ syntax = wRelglob
  /\ checks = <<[name |-> wEncoding, args |-> <<wAscii>>]>>
  /\ result = IF t = <<>> THEN <<>>
              ELSE <<[key |-> relglobKey(t),
                      checks |-> <<[name |-> wEncoding, args |-> <<wAscii>>]>>]>>

ThirdLineDone == pc = "read" /\ srcIdx = 1 /\ Len(sources[1]) = 3 /\ lineIdx = 4

\* C13 as stated: the reader uses the text before the first "#" that has no
\* backslash right before it, with every \# replaced by "#" and trailing
\* whitespace removed; an empty text adds no entry and changes neither the
\* default syntax nor the pending check list.
C13_CommentAtPlainHash ==
  ThirdLineDone => ReadAs(TextBefore(sources[1][3], FirstPlainHash(sources[1][3])))

\* C13 as amended: the comment starts at the first "#" that has an even
\* number of backslashes (zero included) right before it: \\# is an escaped
\* backslash followed by a comment, and both backslashes stay in the text.
C13_CommentAtUnescapedHash ==
  ThirdLineDone => ReadAs(TextBefore(sources[1][3], FirstUnescapedHash(sources[1][3])))

\* C13 witness: the line a\\#a is read as the pattern a\\
C13_Witness ==
  /\ ThirdLineDone
  /\ sources[1][3] = <<"a", BSL, BSL, "#", "a">>
  /\ result = <<[key |-> relglobKey(<<"a", BSL, BSL>>),
                 checks |-> <<[name |-> wEncoding, args |-> <<wAscii>>]>>]>>

(***************************************************************************)
(* A checks: payload as a list of whitespace-separated fragments           *)
(***************************************************************************)
\* the maximal runs of non-whitespace characters of s, in order
Words(s) ==
  LET w[n \in 0..Len(s)] ==
        IF n = 0 THEN <<>>
        ELSE LET prev == w[n - 1]
             IN IF IsSpace(s[n]) THEN prev
                ELSE IF n > 1 /\ ~IsSpace(s[n - 1])
                THEN [prev EXCEPT ![Len(prev)] = Append(@, s[n])]
                ELSE Append(prev, <<s[n]>>)
  IN w[Len(s)]

\* f is name(arg): a name, one opening bracket, an argument text without
\* brackets, commas or quotes, and the closing bracket at the end
IsInvocation(f) ==
  /\ Len(f) >= 3
  /\ f[1] # "("
  /\ f[Len(f)] = ")"
  /\ Cardinality({i \in 1..Len(f) : f[i] = "("}) = 1
  /\ Cardinality({i \in 1..Len(f) : f[i] = ")"}) = 1
  /\ \A i \in 1..Len(f) : f[i] \notin {",", "'", "\""}

InvocationName(f) == SubSeq(f, 1, Min({i \in 1..Len(f) : f[i] = "("}) - 1)

InvocationArgs(f) ==
  LET a == SubSeq(f, Min({i \in 1..Len(f) : f[i] = "("}) + 1, Len(f) - 1)
  IN IF a = <<>> THEN <<>> ELSE <<a>>

IsKnownInvocation(f) == IsInvocation(f) /\ InvocationName(f) \in {wEncoding, wMimetype, wBmp, wBom}

\* the known invocations among the fragments, in their order, as the
\* parser is to return them
KnownChecks(frs) ==
  LET known == SelectSeq(frs, IsKnownInvocation)
  IN [i \in 1..Len(known) |->
        [name |-> InvocationName(known[i]), args |-> InvocationArgs(known[i])]]

\* the payload of the checks: line of the parser specification
Payload == Drop(sources[1][4], 7)

\* the reader has gone through that line and not yet left the source
PayloadParsed == pc = "read" /\ srcIdx = 1 /\ Len(sources[1]) = 5 /\ lineIdx >= 5

\* C14: for a payload of whitespace-separated name(args) invocations the
\* parser returns exactly those with a known name, in order, and emits one
\* warning per invocation with an unknown name.
C14_KnownInvocationsKept ==
  PayloadParsed =>
    LET frs == Words(Payload)
    IN (\A i \in 1..Len(frs) : IsInvocation(frs[i])) =>
         /\ checks = KnownChecks(frs)
         /\ warnings = Len(frs) - Len(KnownChecks(frs))

\* C14 witness: encoding(ascii) bogus() bom(true) gave encoding and bom and
\* one warning
C14_Witness ==
  /\ PayloadParsed
  /\ Payload = SP \o Call(wEncoding, wAscii) \o SP \o Call(wBogus, <<>>) \o SP \o Call(wBom, wTrue)
  /\ checks = <<[name |-> wEncoding, args |-> <<wAscii>>], [name |-> wBom, args |-> <<wTrue>>]>>
  /\ warnings = 1

\* C15: whenever a fragment of a non-empty payload is not returned as an
\* invocation (an unknown name, a missing closing bracket, text without
\* brackets), the parser emits at least one warning, and every well-formed
\* known invocation of the payload is still returned, in order.
C15_OnlyBadFragmentDropped ==
  PayloadParsed =>
    LET frs == Words(Payload)
    IN (/\ frs # <<>>
        /\ \A i \in 1..Len(frs) : \A j \in 1..Len(frs[i]) : frs[i][j] \notin {",", "'", "\""}) =>
         /\ checks = KnownChecks(frs)
         /\ Len(KnownChecks(frs)) < Len(frs) => warnings >= 1

\* no name(args) occurrence can be found in s: no opening bracket with a
\* character other than "(" before it and a closing bracket after it
NoOccurrence(s) ==
  ~\E i \in 2..Len(s) : \E j \in (i + 1)..Len(s) :
     s[i] = "(" /\ s[i - 1] # "(" /\ s[j] = ")"

\* C16: an empty or whitespace-only payload yields the empty list and no
\* warning; a payload with other characters in which no name(args)
\* occurrence can be found yields the empty list and exactly one warning.
C16_EmptyAndMalformed ==
  PayloadParsed =>
    /\ Words(Payload) = <<>> => checks = <<>> /\ warnings = 0
    /\ (Words(Payload) # <<>> /\ NoOccurrence(Payload)) => checks = <<>> /\ warnings = 1

\* C16 witness: the payload invalid[] emptied the pending list with one warning
C16_Witness ==
  /\ PayloadParsed
  /\ Payload = SP \o wInvalidBrackets
  /\ checks = <<>>
  /\ warnings = 1

\* C17: for every list of argument values, written bare, in single quotes
\* or in double quotes and separated by a comma and a space, the invocation
\* is bound to exactly these values, in order.
C17_QuoteStyleIrrelevant ==
  PayloadParsed =>
    \A vals \in SeqsUpTo(ArgValues, MaxArgs) \ {<<>>} :
      \A styles \in [1..Len(vals) -> QuoteStyles] :
        Payload = SP \o Call(wEncoding, ArgsText(vals, styles))
          => checks = <<[name |-> wEncoding, args |-> vals]>>

(***************************************************************************)
(* The pattern line of the resolver specification                          *)
(***************************************************************************)
ResolvedLine == sources[1][4]

\* the default syntax the source sets before the pattern line
DefaultSyntax == IF sources[1][2] = lnSyntaxGlob THEN wRelglob ELSE wRelre

\* the line starts with a non-empty run of alphanumerics followed by ":"
StartsWithSyntaxPrefix(l) ==
  \E n \in 1..(Len(l) - 1) : (\A i \in 1..n : l[i] \in Alnum) /\ l[n + 1] = ":"

\* the reader is in the source of the resolver specification
Resolving == srcIdx = 1 /\ Len(sources[1]) = 4

\* the only entry of the table is key with encoding(ascii)
OnlyEntry(key) ==
  result = <<[key |-> key, checks |-> <<[name |-> wEncoding, args |-> <<wAscii>>]>>]>>

\* C18: a line that does not start with a non-empty run of alphanumerics
\* followed by ":" is resolved to the default syntax, a colon and the whole
\* line, wherever else it holds a colon.
C18_PrefixOnlyAtStart ==
  (Resolving /\ ~StartsWithSyntaxPrefix(ResolvedLine)) =>
    /\ pc = "read"
    /\ lineIdx < 5 => result = <<>>
    /\ lineIdx = 5 => OnlyEntry(DefaultSyntax \o <<":">> \o ResolvedLine)

\* C18 witness: dir/[a-z:]*.cpp under glob is relglob:dir/[a-z:]*.cpp
C18_Witness ==
  /\ Resolving
  /\ lineIdx = 5
  /\ ResolvedLine = lnCharClass
  /\ OnlyEntry(wRelglob \o <<":">> \o lnCharClass)

\* C19: under each default syntax, re:x, regexp:x and relre:x are resolved
\* to relre:x, and glob:x and relglob:x to relglob:x.
C19_AliasesInterchangeable ==
  Resolving =>
    \A x \in PatternTexts :
      /\ ResolvedLine \in {p \o <<":">> \o x : p \in {wRe, wRegexp, wRelre}} =>
           /\ pc = "read"
           /\ lineIdx = 5 => OnlyEntry(wRelre \o <<":">> \o x)
      /\ ResolvedLine \in {p \o <<":">> \o x : p \in {wGlob, wRelglob}} =>
           /\ pc = "read"
           /\ lineIdx = 5 => OnlyEntry(wRelglob \o <<":">> \o x)

\* C19 witness: regexp:*.h under the default glob is relre:*.h
C19_Witness ==
  /\ Resolving
  /\ lineIdx = 5
  /\ sources[1][2] = lnSyntaxGlob
  /\ ResolvedLine = wRegexp \o <<":">> \o patDotH
  /\ OnlyEntry(wRelre \o <<":">> \o patDotH)

(***************************************************************************)
(* bom(expected) called on its own                                         *)
(***************************************************************************)
\* the call of the check has returned
Called == pc = "called" /\ Len(log) = 1

\* the content starts with the mark
LeadingBytesAre(content, mark) ==
  Len(content) >= Len(mark) /\ \A i \in 1..Len(mark) : content[i] = mark[i]

\* expected is one of true, yes, y, on, 1 in any letter case
IsTrueToken(tok) == Lower(tok) \in {wTrue, <<"y","e","s">>, <<"y">>, <<"o","n">>, <<"1">>}

\* C20: with a true token bom passes exactly when the leading bytes are a
\* mark allowed for the asserted encoding variant and, for a UTF-16
\* variant, not also a UTF-32 mark; with any other token it passes exactly
\* when the leading bytes are none of the five marks, whatever is asserted.
C20_BomPassesExactly ==
  (Called /\ tests[1].name = wBom) =>
    LET content == files[fileName]
        given == log[1].asserted
        allowed == IF wEncoding \in DOMAIN given
                   THEN UNION {e.marks : e \in {d \in BomEncodings : d.name = given[wEncoding][1]}}
                   ELSE {}
        is16 == /\ wEncoding \in DOMAIN given
                /\ \E e \in BomEncodings : e.name = given[wEncoding][1] /\ e.is16
        is32Mark == \/ LeadingBytesAre(content, BOM_UTF32_LE)
                    \/ LeadingBytesAre(content, BOM_UTF32_BE)
    IN (log[1].error = "ok") <=>
         IF IsTrueToken(tests[1].args[1])
         THEN /\ \E m \in allowed : LeadingBytesAre(content, m)
              /\ is16 => ~is32Mark
         ELSE \A m \in {BOM_UTF8, BOM_UTF16_LE, BOM_UTF16_BE, BOM_UTF32_LE, BOM_UTF32_BE} :
                ~LeadingBytesAre(content, m)

\* C20 witness: bom(true) under utf16 was called on a content that starts
\* with the UTF-32 LE mark, whose first two bytes are the UTF-16 LE mark,
\* and returned a failure reason
C20_Witness ==
  /\ Called
  /\ tests = <<[name |-> wBom, args |-> <<wTrue>>]>>
  /\ log[1].asserted = [n \in {wEncoding} |-> << <<"u","t","f","1","6">> >>]
  /\ files[fileName] = BOM_UTF32_LE
  /\ log[1].error = "fail"

(***************************************************************************)
(* mimetype(type) called on its own                                        *)
(***************************************************************************)
\* the lower-cased asserted encoding is one of ascii, latin*, iso-8859*, cp*
IsStatedSingleByte(e) ==
  \/ e = wAscii
  \/ StartsWith(e, wLatin)
  \/ StartsWith(e, <<"i","s","o","-","8","8","5","9">>)
  \/ StartsWith(e, <<"c","p">>)

\* every raw byte is >= 0x20 or is TAB, LF or CR
AllBytesPrintable(content) ==
  \A i \in 1..Len(content) : content[i] >= 32 \/ content[i] \in {9, 10, 13}

\* the content decodes and every decoded character is TAB, LF or CR, or
\* lies in 0x20..0x7E, or is >= 0xA0
AllCharsPrintable(e, content) ==
  /\ CodecOf(e) # ""
  /\ LET d == Decode(CodecOf(e), content)
     IN /\ d.ok
        /\ \A i \in 1..Len(d.chars) :
             \/ d.chars[i] \in {9, 10, 13}
             \/ d.chars[i] \in 32..126
             \/ d.chars[i] >= 160

\* whether mimetype passes when the single-byte encodings are those of
\* the given predicate
MimePassesWith(singleByte(_)) ==
  LET type == tests[1].args[1]
      given == log[1].asserted
      content == files[fileName]
  IN (log[1].error = "ok") <=>
       IF ~StartsWith(type, wText) \/ wEncoding \notin DOMAIN given THEN TRUE
       ELSE LET e == Lower(given[wEncoding][1])
            IN IF StartsWith(e, wUtf) THEN AllCharsPrintable(e, content)
               ELSE IF singleByte(e) THEN AllBytesPrintable(content)
               ELSE TRUE

\* C21 as stated: mimetype passes for every content when type does not
\* start with text, no encoding is asserted, or the asserted encoding is
\* neither utf* nor one of ascii, latin*, iso-8859*, cp*; under one of the
\* latter iff every raw byte is printable; under utf* iff every decoded
\* character is printable.
C21_MimePassesAsStated ==
  (Called /\ tests[1].name = wMimetype) => MimePassesWith(IsStatedSingleByte)

\* the single-byte encodings of the code: iso8859* as well
IsSingleByte(e) == IsStatedSingleByte(e) \/ StartsWith(e, <<"i","s","o","8","8","5","9">>)

\* C21 amended: the same with iso8859* (no hyphen) counted among the
\* single-byte text encodings.
C21_MimePasses ==
  (Called /\ tests[1].name = wMimetype) => MimePassesWith(IsSingleByte)

\* C21 witness: mimetype(text/plain) under iso8859-1 was called on a BEL
\* byte and returned a failure reason
C21_Witness ==
  /\ Called
  /\ tests = <<[name |-> wMimetype, args |-> <<wTextPlain>>]>>
  /\ log[1].asserted = [n \in {wEncoding} |-> << <<"i","s","o","8","8","5","9","-","1">> >>]
  /\ files[fileName] = <<7>>
  /\ log[1].error = "fail"

(***************************************************************************)
(* encoding(name) called on its own                                        *)
(***************************************************************************)
\* C22: encoding(binary) passes for every content; encoding(ascii) passes
\* iff every byte of the content is below 0x80 and otherwise returns a
\* failure reason.
C22_BinaryAndAscii ==
  (Called /\ tests[1].name = wEncoding) =>
    LET content == files[fileName]
        allBelow80 == \A i \in 1..Len(content) : content[i] < 128
    IN /\ tests[1].args[1] = wBinary => log[1].error = "ok"
       /\ tests[1].args[1] = wAscii =>
            log[1].error = (IF allBelow80 THEN "ok" ELSE "fail")

\* C22 witness: encoding(ascii) was called on "A" followed by the byte
\* 0x80 and returned a failure reason
C22_Witness ==
  /\ Called
  /\ tests = <<[name |-> wEncoding, args |-> <<wAscii>>]>>
  /\ files[fileName] = <<65, 128>>
  /\ log[1].error = "fail"

(***************************************************************************)
(* Round trip through the editor                                           *)
(***************************************************************************)
\* the table the dialog read from the file it was opened on
FirstTable == readPatterns(sources[1], FALSE).table

\* the text the dialog was opened on has no escaped "#" and no pattern
\* that begins with an alias and a colon
PlainText == \A i \in 1..Len(sources[1]) : sources[1][i] \in PlainEditLines

\* C23: reading a well-formed configuration in raw mode, writing the table
\* with storeFilePatterns and reading the written text again yields the
\* same descriptors in the same order with the same check strings (and the
\* second reading does not fail).
C23_RoundTrip ==
  /\ pc = "reloaded" => patterns = FirstTable
  /\ ~(pc = "raised" /\ Len(sources) = 2)

\* the round trip of the texts without the two features
RoundTripWhenPlain ==
  PlainText => C23_RoundTrip

(***************************************************************************)
(* Files of a batch are verified independently                             *)
(***************************************************************************)
\* the checks of testList from index i on applied to content: the names of
\* the checks that passed and "ok", "fail" or the exception raised
RECURSIVE AppliedFrom(_, _, _, _, _)
AppliedFrom(testList, content, given, i, run) ==
  IF i > Len(testList) THEN [run |-> run, outcome |-> "ok"]
  ELSE LET error == callTest(testList[i], content, given)
       IN IF error = "ok"
          THEN AppliedFrom(testList, content, given, i + 1, Append(run, testList[i].name))
          ELSE [run |-> run, outcome |-> error]

\* the result of verifying one file, from the table as built, the path and
\* the content alone
VerifiedAlone(table, path, content) ==
  LET m == firstMatch(table, path)
  IN IF m = 0 THEN [run |-> <<>>, outcome |-> "ok"]
     ELSE AppliedFrom(table[m].checks, content, makeAsserted(table[m].checks), 1, <<>>)

\* the hook rejects the file taken by itself
FileRejected(table, path, content) ==
  LET r == VerifiedAlone(table, path, content)
  IN \/ r.outcome = "fail"
     \/ r.outcome = "ok" /\ mandatoryChecks \ {r.run[i] : i \in 1..Len(r.run)} # {}

\* the hook passes the file taken by itself
FileAccepted(table, path, content) ==
  LET r == VerifiedAlone(table, path, content)
  IN r.outcome = "ok" /\ mandatoryChecks \subseteq {r.run[i] : i \in 1..Len(r.run)}

\* the table has been built
Verifying == pc \in {"loop", "apply", "returned", "reject", "accept"}

\* C24: while files are verified the table stays the one read from the
\* configuration; the (checks run, verdict) pair runTests returns for a
\* file is the result of that file taken by itself, whatever was verified
\* before it; and the batch is accepted only if every file is accepted and
\* rejected only if some file is rejected by itself, so that no two orders
\* of the files give different verdicts.
C24_FilesIndependent ==
  /\ Verifying =>
       /\ patterns = readPatterns(sources[1], TRUE).table
       /\ matchPatterns \in Orders(patterns)
  /\ pc = "returned" =>
       LET r == VerifiedAlone(matchPatterns, fileName, files[fileName])
       IN /\ r.outcome \in {"ok", "fail"}
          /\ checksRun = r.run
          /\ success = (r.outcome = "ok")
  /\ pc = "accept" =>
       \A f \in DOMAIN files : FileAccepted(matchPatterns, f, files[f])
  /\ pc = "reject" =>
       /\ FileRejected(matchPatterns, fileName, files[fileName])
       /\ \A f \in (DOMAIN files) \ (filesToCheck \cup {fileName}) :
            FileAccepted(matchPatterns, f, files[f])

\* C24 witness: in a batch of three files under one pattern the file with
\* the BEL byte was verified last, after two files passed, and the batch
\* was rejected
C24_Witness ==
  /\ pc = "reject"
  /\ files = (pathAH :> <<65>>) @@ (pathBC :> <<7>>) @@ (pathCH :> <<65>>)
  /\ Len(matchPatterns) = 1
  /\ matchPatterns[1].key = wRelglob \o <<":">> \o patStar
  /\ fileName = pathBC
  /\ filesToCheck = {}
  /\ checksRun = <<>>
  /\ ~success

(***************************************************************************)
(* Order of the table under re-declaration                                 *)
(***************************************************************************)
\* the descriptors of the pattern lines of a cleaned source from line i on,
\* in the order of the lines
RECURSIVE DescriptorsFrom(_, _)
DescriptorsFrom(cl, i) ==
  IF i > Len(cl) THEN <<>>
  ELSE (IF IsPatternLine(cl[i])
        THEN <<parseExpression(cl[i], SyntaxAt(cl, i)).key>>
        ELSE <<>>)
       \o DescriptorsFrom(cl, i + 1)

\* the descriptors declared by the first n sources, in order
RECURSIVE DeclaredUpTo(_)
DeclaredUpTo(n) ==
  IF n = 0 THEN <<>>
  ELSE DeclaredUpTo(n - 1) \o DescriptorsFrom(CleanAll(sources[n]), 1)

\* a sequence without the repetitions of its elements
RECURSIVE FirstDeclarations(_)
FirstDeclarations(keys) ==
  IF keys = <<>> THEN <<>>
  ELSE LET before == FirstDeclarations(SubSeq(keys, 1, Len(keys) - 1))
           last == keys[Len(keys)]
       IN IF \E i \in 1..Len(before) : before[i] = last THEN before
          ELSE Append(before, last)

KeysInOrder(d) == [i \in 1..Len(d) |-> d[i].key]

\* some descriptor of the sources read so far was declared more than once
Redeclared == Len(DeclaredUpTo(srcIdx - 1)) > Len(patterns)

\* the order of the merged table is that of the first declarations of its
\* descriptors, after each source
TableOrderByFirstDeclaration ==
  (pc # "raised" /\ lineIdx = 1) =>
    KeysInOrder(patterns) = FirstDeclarations(DeclaredUpTo(srcIdx - 1))

\* C25: a descriptor declared again, in the same source or a later one,
\* keeps the position of its first declaration in the table's order, and
\* the pattern applied to a file that several patterns match is the one
\* declared first.
C25_OrderAndPriority ==
  /\ TableOrderByFirstDeclaration
  /\ (pc \in {"apply", "returned"} /\ Redeclared /\ firstMatch(patterns, fileName) # 0) =>
       tests = patterns[firstMatch(patterns, fileName)].checks

====
